---- MODULE Spec2Model ----
(***************************************************************************)
(* Loan-entry tracker: the `entries` table (migrations) and the React      *)
(* components that read and write it (EntryForm, TakenEntries,             *)
(* SettledEntries, Report), each mounted by App for one browser session.   *)
(*                                                                         *)
(* Every supabase call is one request/response exchange: the statement     *)
(* runs atomically at the table when the handler issues it, and the code   *)
(* after the `await` runs later, when the response is delivered.  A        *)
(* response therefore carries the values the handler's closure captured.   *)
(*                                                                         *)
(* Encoding of values:                                                     *)
(*   SQL NULL / JS null          <<>>                                      *)
(*   a non-null nullable value   <<v>>                                     *)
(*   a 'yyyy-MM-dd' date string  <<y, m, d>>                               *)
(*   a 'dd-MM-yyyy' date string  <<d, m, y>>                               *)
(*   the empty string of a date input  <<>>                                *)
(* A table or a fetched list is the set of its rows (ids are unique; the   *)
(* display order is not modelled).                                         *)
(***************************************************************************)
EXTENDS Integers, Sequences, FiniteSets, TLC

VARIABLES
  store,               \* rows of the entries table
  nextId,              \* next value of the id identity column
  activeTab,           \* App: activeTab, per session
  entries,             \* the mounted component's `entries` state
  loading,             \* TakenEntries / SettledEntries: loading
  selectedDate,        \* TakenEntries / SettledEntries: selectedDate
  selectedEntry,       \* TakenEntries: selectedEntry
  showSettlementModal, \* TakenEntries: showSettlementModal
  showRenewalModal,    \* TakenEntries: showRenewalModal
  formData,            \* EntryForm: formData
  dateRange,           \* Report: dateRange
  customDateRange,     \* Report: customDateRange
  isCustomDate,        \* Report: isCustomDate
  reportType,          \* Report: reportType
  stats,               \* Report: stats
  importing,           \* Report.importData: the file whose text is awaited
  inflight,            \* per session: responses not yet delivered
  rangeShared,         \* Report: dateRange and customDateRange hold one object
  shownRange,          \* Report: the range the displayed records were fetched with
  user,                \* App: user
  isLoading,           \* App: isLoading
  checking,            \* App: checkSession has not returned yet
  notified,            \* App: the session of the last notification, if any
  timers,              \* EntryForm: pending calls of debounced functions
  firstRender,         \* EntryForm: the component has not re-rendered yet
  suggestions,         \* EntryForm: suggestions
  showSuggestions      \* EntryForm: showSuggestions

vars == <<store, nextId, activeTab, entries, loading, selectedDate,
          selectedEntry, showSettlementModal, showRenewalModal, formData,
          dateRange, customDateRange, isCustomDate, reportType, stats,
          importing, inflight, rangeShared, shownRange, user, isLoading,
          checking, notified, timers, firstRender, suggestions,
          showSuggestions>>

takenVars == <<selectedEntry, showSettlementModal, showRenewalModal>>
reportVars == <<dateRange, customDateRange, isCustomDate, reportType,
                rangeShared>>
appVars == <<user, isLoading, checking, notified>>
searchVars == <<timers, firstRender, suggestions, showSuggestions>>

-----------------------------------------------------------------------------
(* Bounds *)

MaxId == 1         \* rows ever inserted
MaxAmount == 1     \* amounts typed by users range over 0..MaxAmount
MaxRenewals == 1   \* a view row is renewed only while its history is shorter

Clients == {"c1", "c2"}
Amounts == 0..MaxAmount

NULL == <<>>
Some(v) == <<v>>

Today == <<2025, 1, 2>>
Later == <<2025, 1, 3>>

Types == {"NR", "R", "Vyapari"}
Statuses == {"active", "settled"}

-----------------------------------------------------------------------------
(* The entries table *)

\* A row as INSERT builds it from the columns the EntryForm sends: status
\* takes its column default, every other column not named is NULL.
NewRow(id, type, date, name, address, mobile, items, given) ==
  [ id |-> id, type |-> type, date |-> date,
    customer_name |-> name, customer_address |-> address,
    customer_mobile |-> mobile, items |-> items, given_amount |-> given,
    status |-> "active",
    settled_amount |-> NULL, settled_date |-> NULL, settlement_notes |-> NULL,
    renewal_history |-> NULL, renewal_date |-> NULL, renewal_amount |-> NULL ]

\* Variant: the constraint is dropped and not added again
SettlementDetailsRequired_Dropped(r) == r.status \in Statuses

\* CHECK constraint settlement_details_required
SettlementDetailsRequired(r) ==
  \/ r.status = "settled" /\ r.settled_amount # NULL /\ r.settled_date # NULL
  \/ r.status = "active" /\ r.settled_amount = NULL /\ r.settled_date = NULL

\* CHECK constraint renewal_details_check
RenewalDetailsCheck(r) ==
  \/ r.renewal_date # NULL /\ r.renewal_amount # NULL
  \/ r.renewal_date = NULL /\ r.renewal_amount = NULL

\* Variant: the table has no CHECK on given_amount
ColumnChecks_AnyAmount(r) ==
  /\ r.type \in Types
  /\ r.status \in Statuses

\* Column constraints of CREATE TABLE entries and of the status column
ColumnChecks(r) ==
  /\ r.type \in Types
  /\ r.given_amount >= 0
  /\ r.status \in Statuses

RowAccepted(r) ==
  ColumnChecks(r) /\ SettlementDetailsRequired(r) /\ RenewalDetailsCheck(r)

\* Row-level security: the commands for which the migrations leave a policy
\* for authenticated sessions.  A command without a policy sees no row.
RlsPolicies == {"INSERT", "SELECT", "UPDATE"}

RlsPermits(cmd) == cmd \in RlsPolicies

\* Variant: the update is filtered by id alone
Update_ById(st, id, status, patch) ==
  LET matched == IF RlsPermits("UPDATE") THEN {r \in st : r.id = id} ELSE {}
      changed == {patch @@ r : r \in matched}
  IN IF \A r \in changed : RowAccepted(r)
     THEN [store |-> (st \ matched) \cup changed, error |-> FALSE,
           rows |-> Cardinality(matched)]
     ELSE [store |-> st, error |-> TRUE, rows |-> 0]

\* supabase.from('entries').update(patch).eq('id', id).eq('status', status)
\* The result names the table afterwards, whether an error is returned, and
\* the number of rows affected.  The client reads only the error; a
\* response also records `rows` and `found`, the status the table held for
\* the id when the statement ran, for the properties below.
Update(st, id, status, patch) ==
  LET matched == IF RlsPermits("UPDATE")
                 THEN {r \in st : r.id = id /\ r.status = status}
                 ELSE {}
      changed == {patch @@ r : r \in matched}
  IN IF \A r \in changed : RowAccepted(r)
     THEN [store |-> (st \ matched) \cup changed, error |-> FALSE,
           rows |-> Cardinality(matched)]
     ELSE [store |-> st, error |-> TRUE, rows |-> 0]

\* Variant: the delete is filtered by id alone and the table lets it through
Delete_ById(st, id) ==
  LET matched == {r \in st : r.id = id}
  IN [store |-> st \ matched, error |-> FALSE, rows |-> Cardinality(matched)]

\* supabase.from('entries').delete().eq('id', id).eq('status', 'active')
Delete(st, id) ==
  LET matched == IF RlsPermits("DELETE")
                 THEN {r \in st : r.id = id /\ r.status = "active"}
                 ELSE {}
  IN [store |-> st \ matched, error |-> FALSE, rows |-> Cardinality(matched)]

\* A request that fails before reaching the table
Failed(st) == [store |-> st, error |-> TRUE, rows |-> 0]

\* The status the table holds for id ("absent" when it holds no such row)
StatusOf(st, id) ==
  IF \E r \in st : r.id = id
  THEN (CHOOSE r \in st : r.id = id).status
  ELSE "absent"

\* select('*').eq('status', 'active') [.eq('date', selectedDate)]
SelectActive(st, date) ==
  IF RlsPermits("SELECT")
  THEN {r \in st : r.status = "active" /\ (date = NULL \/ r.date = date)}
  ELSE {}

\* The columns SettledEntries selects
SettledColumns(r) ==
  [ id |-> r.id, type |-> r.type, date |-> r.date,
    customer_name |-> r.customer_name, customer_mobile |-> r.customer_mobile,
    given_amount |-> r.given_amount, settled_amount |-> r.settled_amount,
    settled_date |-> r.settled_date, items |-> r.items,
    settlement_notes |-> r.settlement_notes ]

\* select(columns).eq('status', 'settled') [.eq('settled_date', selectedDate)]
SelectSettled(st, date) ==
  IF RlsPermits("SELECT")
  THEN {SettledColumns(r) : r \in
          {q \in st : q.status = "settled"
                      /\ (date = NULL \/ q.settled_date = Some(date))}}
  ELSE {}

\* gte('date', lo).lte('date', hi) compare dates as the table does
DateLeq(a, b) ==
  \/ a[1] < b[1]
  \/ a[1] = b[1] /\ a[2] < b[2]
  \/ a[1] = b[1] /\ a[2] = b[2] /\ a[3] <= b[3]

\* select('*').gte('date', lo).lte('date', hi)
SelectRange(st, lo, hi) ==
  IF RlsPermits("SELECT")
  THEN {r \in st : DateLeq(lo, r.date) /\ DateLeq(r.date, hi)}
  ELSE {}

\* insert(rows): one statement, so every row is stored or none is
Insert(st, rows) ==
  IF RlsPermits("INSERT") /\ \A r \in rows : RowAccepted(r)
  THEN [store |-> st \cup rows, error |-> FALSE, rows |-> Cardinality(rows)]
  ELSE [store |-> st, error |-> TRUE, rows |-> 0]

-----------------------------------------------------------------------------
(* Dates in the components *)

\* format(date, 'dd-MM-yyyy') of a day <<y, m, d>>
FormatDMY(day) == <<day[3], day[2], day[1]>>

\* Report.convertDateFormat / EntryForm.handleSubmit: split a 'dd-MM-yyyy'
\* string at '-' and join the parts as year-month-day
convertDateFormat(date) == <<date[3], date[2], date[1]>>

-----------------------------------------------------------------------------
(* Report statistics *)

\* The accumulator calculateStats starts its reduce with
InitialAcc ==
  [ totalLoans |-> 0, activeLoans |-> 0, settledLoans |-> 0,
    totalInvested |-> 0, totalEarned |-> 0, loanTypes |-> <<>> ]

\* The per-type record calculateStats creates for a type it has not seen
NewLoanType ==
  [total |-> 0, active |-> 0, settled |-> 0, invested |-> 0, earned |-> 0]

\* entry.settled_amount || 0
SettledAmountOrZero(entry) ==
  IF entry.settled_amount = NULL THEN 0 ELSE entry.settled_amount[1]

\* Variant: a settled entry is not counted under its type
ReduceStep_UntypedSettled(acc, entry) ==
  LET known == IF entry.type \in DOMAIN acc.loanTypes THEN acc.loanTypes
               ELSE (entry.type :> NewLoanType) @@ acc.loanTypes
      old == known[entry.type]
      counted == [old EXCEPT !.total = @ + 1,
                             !.invested = @ + entry.given_amount]
      typed == IF entry.status = "active"
               THEN [counted EXCEPT !.active = @ + 1]
               ELSE counted
  IN [ totalLoans |-> acc.totalLoans + 1,
       totalInvested |-> acc.totalInvested + entry.given_amount,
       activeLoans |-> acc.activeLoans
                         + (IF entry.status = "active" THEN 1 ELSE 0),
       settledLoans |-> acc.settledLoans
                          + (IF entry.status = "settled" THEN 1 ELSE 0),
       totalEarned |-> acc.totalEarned
                         + (IF entry.status = "settled"
                            THEN SettledAmountOrZero(entry) ELSE 0),
       loanTypes |-> [known EXCEPT ![entry.type] = typed] ]

\* One call of the reducer of calculateStats
ReduceStep(acc, entry) ==
  LET known == IF entry.type \in DOMAIN acc.loanTypes THEN acc.loanTypes
               ELSE (entry.type :> NewLoanType) @@ acc.loanTypes
      old == known[entry.type]
      counted == [old EXCEPT !.total = @ + 1,
                             !.invested = @ + entry.given_amount]
      typed == IF entry.status = "active"
               THEN [counted EXCEPT !.active = @ + 1]
               ELSE IF entry.status = "settled"
               THEN [counted EXCEPT !.settled = @ + 1,
                                    !.earned = @ + SettledAmountOrZero(entry)]
               ELSE counted
  IN [ totalLoans |-> acc.totalLoans + 1,
       totalInvested |-> acc.totalInvested + entry.given_amount,
       activeLoans |-> acc.activeLoans
                         + (IF entry.status = "active" THEN 1 ELSE 0),
       settledLoans |-> acc.settledLoans
                          + (IF entry.status = "settled" THEN 1 ELSE 0),
       totalEarned |-> acc.totalEarned
                         + (IF entry.status = "settled"
                            THEN SettledAmountOrZero(entry) ELSE 0),
       loanTypes |-> [known EXCEPT ![entry.type] = typed] ]

\* data.reduce(reducer, acc)
RECURSIVE Reduce(_, _)
Reduce(data, acc) ==
  IF data = {} THEN acc
  ELSE LET entry == CHOOSE e \in data : TRUE
       IN Reduce(data \ {entry}, ReduceStep(acc, entry))

\* Variant: profit is what was invested less what was earned
calculateStats_ProfitReversed(data) ==
  LET acc == Reduce(data, InitialAcc)
  IN [ totalLoans |-> acc.totalLoans,
       activeLoans |-> acc.activeLoans,
       settledLoans |-> acc.settledLoans,
       totalInvested |-> acc.totalInvested,
       totalEarned |-> acc.totalEarned,
       profit |-> acc.totalInvested - acc.totalEarned,
       loanTypes |-> acc.loanTypes ]

\* Report.calculateStats: the value it passes to setStats
calculateStats(data) ==
  LET acc == Reduce(data, InitialAcc)
  IN [ totalLoans |-> acc.totalLoans,
       activeLoans |-> acc.activeLoans,
       settledLoans |-> acc.settledLoans,
       totalInvested |-> acc.totalInvested,
       totalEarned |-> acc.totalEarned,
       profit |-> acc.totalEarned - acc.totalInvested,
       loanTypes |-> acc.loanTypes ]

\* Report: initial stats state
EmptyStats ==
  [ totalLoans |-> 0, activeLoans |-> 0, settledLoans |-> 0,
    totalInvested |-> 0, totalEarned |-> 0, profit |-> 0,
    loanTypes |-> <<>> ]

-----------------------------------------------------------------------------
(* Component state at mount *)

\* EntryForm: initial formData (also the value the form is reset to)
DefaultForm ==
  [ type |-> "NR", date |-> FormatDMY(Today), customerName |-> "",
    customerAddress |-> "", customerMobile |-> "", items |-> "",
    givenAmount |-> 0 ]

\* Report: initial dateRange and customDateRange
TodayRange == [start |-> FormatDMY(Today), end |-> FormatDMY(Today)]

\* TakenEntries.fetchEntries: the request and what it will answer
TakenFetch(st, date, err) ==
  [ kind |-> "fetch", error |-> err, start |-> NULL, end |-> NULL,
    data |-> IF err THEN {} ELSE SelectActive(st, date) ]

\* SettledEntries.fetchSettledEntries
SettledFetch(st, date, err) ==
  [ kind |-> "fetch", error |-> err, start |-> NULL, end |-> NULL,
    data |-> IF err THEN {} ELSE SelectSettled(st, date) ]

\* Report.fetchEntries, with the range state its closure holds
ReportFetch(st, custom, customRange, range, err) ==
  LET start == convertDateFormat(IF custom THEN customRange.start
                                 ELSE range.start)
      end == convertDateFormat(IF custom THEN customRange.end ELSE range.end)
  IN [ kind |-> "fetch", error |-> err, start |-> Some(start),
       end |-> Some(end),
       data |-> IF err THEN {} ELSE SelectRange(st, start, end) ]

Send(c, response) == inflight' = [inflight EXCEPT ![c] = Append(@, response)]

Remove(seq, i) == SubSeq(seq, 1, i - 1) \o SubSeq(seq, i + 1, Len(seq))

\* The fetch a component issues from its mount effect
MountFetch(tab, st, err) ==
  CASE tab = "taken" -> <<TakenFetch(st, NULL, err)>>
    [] tab = "settled" -> <<SettledFetch(st, NULL, err)>>
    [] tab = "report" -> <<ReportFetch(st, FALSE, TodayRange, TodayRange, err)>>
    [] OTHER -> <<>>

Tabs == {"entry", "taken", "settled", "report"}

\* The account a session signs in with
Account == Some("owner")

\* Variant: the views are shown as soon as a user is known
Content_IgnoresLoading(loadingNow, userNow, tab) ==
  IF userNow = NULL THEN "auth" ELSE tab

\* App.renderContent: what is rendered for the given App state
Content(loadingNow, userNow, tab) ==
  IF loadingNow THEN "spinner"
  ELSE IF userNow = NULL THEN "auth"
  ELSE tab

renderContent(c) == Content(isLoading[c], user[c], activeTab[c])

\* The responses App itself waits for; those of an unmounted component
\* reach nothing
AppResponses(seq) == SelectSeq(seq, LAMBDA r : r.kind = "signout")

\* EntryForm's cleanup effect: its closure holds the debouncedSearch of the
\* first render and cancels the call pending on that one.  Calls pending
\* on the functions of later renders outlive the component.
Unmounted(ts) ==
  LET kept == SelectSeq(ts, LAMBDA t : ~(t.live /\ t.first))
  IN [k \in 1..Len(kept) |-> [kept[k] EXCEPT !.live = FALSE]]

\* React commits the render that follows a change of App state.  When
\* renderContent returns another element, the old component is unmounted
\* (its state is gone) and the new one is mounted in its initial state, its
\* mount effect issuing the first fetch.  `kept` is what the session still
\* waits for.
Render(c, content, kept, err) ==
  IF content = renderContent(c)
  THEN /\ inflight' = [inflight EXCEPT ![c] = kept]
       /\ UNCHANGED <<entries, loading, selectedDate, takenVars, formData,
                      reportVars, stats, shownRange, importing, searchVars>>
  ELSE /\ entries' = [entries EXCEPT ![c] = {}]
       /\ loading' = [loading EXCEPT ![c] = TRUE]
       /\ selectedDate' = [selectedDate EXCEPT ![c] = NULL]
       /\ selectedEntry' = [selectedEntry EXCEPT ![c] = NULL]
       /\ showSettlementModal' = [showSettlementModal EXCEPT ![c] = FALSE]
       /\ showRenewalModal' = [showRenewalModal EXCEPT ![c] = FALSE]
       /\ formData' = [formData EXCEPT ![c] = DefaultForm]
       /\ dateRange' = [dateRange EXCEPT ![c] = TodayRange]
       /\ customDateRange' = [customDateRange EXCEPT ![c] = TodayRange]
       /\ isCustomDate' = [isCustomDate EXCEPT ![c] = FALSE]
       /\ reportType' = [reportType EXCEPT ![c] = "monthly"]
       /\ rangeShared' = [rangeShared EXCEPT ![c] = FALSE]
       /\ stats' = [stats EXCEPT ![c] = EmptyStats]
       /\ shownRange' = [shownRange EXCEPT ![c] = NULL]
       /\ importing' = [importing EXCEPT ![c] = NULL]
       /\ timers' = [timers EXCEPT ![c] = Unmounted(@)]
       /\ firstRender' = [firstRender EXCEPT ![c] = TRUE]
       /\ suggestions' = [suggestions EXCEPT ![c] = {}]
       /\ showSuggestions' = [showSuggestions EXCEPT ![c] = FALSE]
       /\ inflight' = [inflight EXCEPT ![c] =
                         AppResponses(kept) \o MountFetch(content, store, err)]

\* The state of a session whose components are in their initial state
ComponentsInitial ==
  /\ entries = [c \in Clients |-> {}]
  /\ loading = [c \in Clients |-> TRUE]
  /\ selectedDate = [c \in Clients |-> NULL]
  /\ selectedEntry = [c \in Clients |-> NULL]
  /\ showSettlementModal = [c \in Clients |-> FALSE]
  /\ showRenewalModal = [c \in Clients |-> FALSE]
  /\ formData = [c \in Clients |-> DefaultForm]
  /\ dateRange = [c \in Clients |-> TodayRange]
  /\ customDateRange = [c \in Clients |-> TodayRange]
  /\ isCustomDate = [c \in Clients |-> FALSE]
  /\ reportType = [c \in Clients |-> "monthly"]
  /\ rangeShared = [c \in Clients |-> FALSE]
  /\ stats = [c \in Clients |-> EmptyStats]
  /\ shownRange = [c \in Clients |-> NULL]
  /\ importing = [c \in Clients |-> NULL]
  /\ inflight = [c \in Clients |-> <<>>]
  /\ timers = [c \in Clients |-> <<>>]
  /\ firstRender = [c \in Clients |-> TRUE]
  /\ suggestions = [c \in Clients |-> {}]
  /\ showSuggestions = [c \in Clients |-> FALSE]

\* Every session has passed the startup check with a session
SignedIn ==
  /\ user = [c \in Clients |-> Account]
  /\ isLoading = [c \in Clients |-> FALSE]
  /\ checking = [c \in Clients |-> FALSE]
  /\ notified = [c \in Clients |-> NULL]

\* App's first render: the startup session check is under way
Init ==
  /\ store = {}
  /\ nextId = 1
  /\ activeTab = [c \in Clients |-> "entry"]
  /\ user = [c \in Clients |-> NULL]
  /\ isLoading = [c \in Clients |-> TRUE]
  /\ checking = [c \in Clients |-> TRUE]
  /\ notified = [c \in Clients |-> NULL]
  /\ ComponentsInitial

\* App.checkSession after `await supabase.auth.getSession()`: `session` is
\* the user of the session found (NULL when there is none)
CheckSessionDone(c, session, failed, err) ==
  /\ checking[c]
  /\ checking' = [checking EXCEPT ![c] = FALSE]
  /\ user' = [user EXCEPT ![c] = IF failed THEN NULL ELSE session]
  /\ isLoading' = [isLoading EXCEPT ![c] = FALSE]
  /\ Render(c, Content(FALSE, user'[c], activeTab[c]), inflight[c], err)
  /\ UNCHANGED <<store, nextId, activeTab, notified>>

\* The onAuthStateChange callback: a session-change notification arrives
AuthStateChange(c, session, err) ==
  /\ user' = [user EXCEPT ![c] = session]
  /\ notified' = [notified EXCEPT ![c] = Some(session)]
  /\ Render(c, Content(isLoading[c], session, activeTab[c]), inflight[c], err)
  /\ UNCHANGED <<store, nextId, activeTab, isLoading, checking>>

\* App.handleSignOut up to its await.  signOut() notifies the subscribers
\* of the sign-out before it returns.
HandleSignOut(c, failed) ==
  /\ user[c] # NULL
  /\ user' = [user EXCEPT ![c] = IF failed THEN @ ELSE NULL]
  /\ notified' = [notified EXCEPT ![c] = IF failed THEN @ ELSE Some(NULL)]
  /\ Render(c, Content(isLoading[c], user'[c], activeTab[c]),
            Append(inflight[c], [kind |-> "signout", error |-> failed]), FALSE)
  /\ UNCHANGED <<store, nextId, activeTab, isLoading, checking>>

\* App.handleSignOut after the await
SignOutDone(c, i, err) ==
  LET r == inflight[c][i]
  IN /\ r.kind = "signout"
     /\ user' = [user EXCEPT ![c] = IF r.error THEN @ ELSE NULL]
     /\ activeTab' = [activeTab EXCEPT ![c] = IF r.error THEN @ ELSE "entry"]
     /\ Render(c, Content(isLoading[c], user'[c], activeTab'[c]),
               Remove(inflight[c], i), err)
     /\ UNCHANGED <<store, nextId, isLoading, checking, notified>>

\* App: setActiveTab(item.id), the onClick of a navigation button; the
\* navigation bar is rendered while user is set
SetActiveTab(c, tab, err) ==
  /\ user[c] # NULL
  /\ tab # activeTab[c]
  /\ activeTab' = [activeTab EXCEPT ![c] = tab]
  /\ Render(c, Content(isLoading[c], user[c], tab), inflight[c], err)
  /\ UNCHANGED <<store, nextId, appVars>>

-----------------------------------------------------------------------------
(* Requests *)

\* array.filter(entry => entry.id !== id)
WithoutId(list, id) == {e \in list : e.id # id}

-----------------------------------------------------------------------------
(* EntryForm *)

\* The onChange handlers of the form's fields, taken together: the user
\* fills the draft in.
ChangeForm(c, draft) ==
  /\ renderContent(c) = "entry"
  /\ formData' = [formData EXCEPT ![c] = draft]
  /\ firstRender' = [firstRender EXCEPT ![c] = FALSE]
  /\ UNCHANGED <<store, nextId, activeTab, entries, loading, selectedDate,
                 takenVars, reportVars, stats, shownRange, appVars, timers,
                 suggestions, showSuggestions, importing, inflight>>

\* The row EntryForm.handleSubmit sends
SubmittedRow(id, f) ==
  NewRow(id, f.type, convertDateFormat(f.date), f.customerName,
         f.customerAddress,
         IF f.customerMobile = "" THEN NULL ELSE Some(f.customerMobile),
         f.items, f.givenAmount)

\* EntryForm.handleSubmit up to its await.  The browser submits the form
\* only if the required fields are filled and the amount is at least min.
HandleSubmit(c, err) ==
  /\ renderContent(c) = "entry"
  /\ formData[c].customerName # ""
  /\ formData[c].customerAddress # ""
  /\ formData[c].items # ""
  /\ formData[c].givenAmount >= 0
  /\ LET res == IF err THEN Failed(store)
                ELSE Insert(store, {SubmittedRow(nextId, formData[c])})
     IN /\ store' = res.store
        /\ nextId' = IF res.error THEN nextId ELSE nextId + 1
        /\ Send(c, [kind |-> "insert", error |-> res.error,
                    submitted |-> formData[c]])
  /\ UNCHANGED <<activeTab, entries, loading, selectedDate, takenVars,
                 formData, reportVars, stats, shownRange, appVars, searchVars, importing>>

-----------------------------------------------------------------------------
(* EntryForm: customer search *)

Wait == 300        \* debounce(searchCustomers, 300): milliseconds
SearchLimit == 5   \* .limit(5)

\* Time passes in steps of a third of the debounce window
Quantum == Wait \div 3

\* The characters of the strings that are typed into the name field or
\* stored as customer names
Letters(str) ==
  CASE str = "" -> <<>>
    [] str = " " -> <<" ">>
    [] str = "a" -> <<"a">>
    [] str = "An" -> <<"A", "n">>
    [] str = "ann" -> <<"a", "n", "n">>
    [] str = "bob" -> <<"b", "o", "b">>
    [] str = "abe" -> <<"a", "b", "e">>
    [] str = "ada" -> <<"a", "d", "a">>
    [] str = "amy" -> <<"a", "m", "y">>
    [] str = "ava" -> <<"a", "v", "a">>
    [] str = "aya" -> <<"a", "y", "a">>

Lower(ch) == IF ch = "A" THEN "a" ELSE ch

LowerCase(chars) == [k \in 1..Len(chars) |-> Lower(chars[k])]

\* !searchTerm.trim()
Blank(term) == \A k \in 1..Len(Letters(term)) : Letters(term)[k] = " "

\* customer_name ILIKE '%term%'
ILike(name, term) ==
  LET n == LowerCase(Letters(name))
      t == LowerCase(Letters(term))
  IN \E k \in 0..(Len(n) - Len(t)) : SubSeq(n, k + 1, k + Len(t)) = t

\* select(...).ilike('customer_name', `%${searchTerm}%`): the matching rows
Matching(st, term) ==
  IF RlsPermits("SELECT") THEN {r \in st : ILike(r.customer_name, term)}
  ELSE {}

\* .order('customer_name').limit(5): the row sets the query can return
Limited(rows) ==
  IF Cardinality(rows) <= SearchLimit THEN {rows}
  ELSE {some \in SUBSET rows : Cardinality(some) = SearchLimit}

\* The three columns the search selects
Suggestion(r) ==
  [ customer_name |-> r.customer_name,
    customer_address |-> r.customer_address,
    customer_mobile |-> r.customer_mobile ]

\* Variant: every returned row becomes a suggestion
UniqueCustomers_EveryRow(rows) == {Suggestion(r) : r \in rows}

\* uniqueCustomers: one suggestion for each customer name
UniqueCustomers(rows) ==
  { Suggestion(CHOOSE r \in rows : r.customer_name = name) :
      name \in {r.customer_name : r \in rows} }

\* A call debouncedSearch(value) in a render: debounce() has made a new
\* function for this render, so a call is pending on it only if the render
\* is the first one and the function was called before; that call is
\* replaced.  The new call is due after Wait.
Debounced(ts, first, value) ==
  Append(IF first THEN SelectSeq(ts, LAMBDA t : ~(t.live /\ t.first)) ELSE ts,
         [first |-> first, term |-> value, left |-> Wait, live |-> TRUE])

\* EntryForm.handleCustomerNameChange
HandleCustomerNameChange(c, value) ==
  /\ renderContent(c) = "entry"
  /\ formData' = [formData EXCEPT ![c].customerName = value]
  /\ timers' = [timers EXCEPT ![c] = Debounced(@, firstRender[c], value)]
  /\ firstRender' = [firstRender EXCEPT ![c] = FALSE]
  /\ UNCHANGED <<store, nextId, activeTab, entries, loading, selectedDate,
                 takenVars, reportVars, stats, shownRange, appVars,
                 suggestions, showSuggestions, importing, inflight>>

\* A Quantum of time passes; it cannot while a pending call is due
Tick ==
  /\ \E c \in Clients : timers[c] # <<>>
  /\ \A c \in Clients : \A k \in 1..Len(timers[c]) : timers[c][k].left > 0
  /\ timers' = [c \in Clients |->
                  [k \in 1..Len(timers[c]) |->
                     [timers[c][k] EXCEPT
                        !.left = IF @ > Quantum THEN @ - Quantum ELSE 0]]]
  /\ UNCHANGED <<store, nextId, activeTab, entries, loading, selectedDate,
                 takenVars, formData, reportVars, stats, shownRange, appVars,
                 firstRender, suggestions, showSuggestions, importing,
                 inflight>>

\* A pending call is due: searchCustomers(term) runs up to its await, or
\* to its end for a blank term.  State setters of a component that is no
\* longer mounted do nothing.
SearchCustomers(c, k, err) ==
  /\ k \in 1..Len(timers[c])
  /\ timers[c][k].left = 0
  /\ timers' = [timers EXCEPT ![c] = Remove(@, k)]
  /\ LET t == timers[c][k]
     IN IF Blank(t.term)
        THEN /\ suggestions' = [suggestions EXCEPT ![c] =
                                  IF t.live THEN {} ELSE @]
             /\ UNCHANGED inflight
        ELSE /\ \E rows \in Limited(Matching(store, t.term)) :
                  Send(c, [ kind |-> "search", error |-> err,
                            term |-> t.term, live |-> t.live,
                            data |-> IF err THEN {}
                                     ELSE UniqueCustomers(rows) ])
             /\ UNCHANGED suggestions
  /\ UNCHANGED <<store, nextId, activeTab, entries, loading, selectedDate,
                 takenVars, formData, reportVars, stats, shownRange, appVars,
                 firstRender, showSuggestions, importing>>

\* EntryForm.searchCustomers after the await
SearchDone(c, i) ==
  LET r == inflight[c][i]
      set == r.live /\ ~r.error
  IN /\ r.kind = "search"
     /\ suggestions' = [suggestions EXCEPT ![c] = IF set THEN r.data ELSE @]
     /\ showSuggestions' = [showSuggestions EXCEPT ![c] =
                              IF set THEN TRUE ELSE @]
     /\ firstRender' = [firstRender EXCEPT ![c] = IF set THEN FALSE ELSE @]
     /\ inflight' = [inflight EXCEPT ![c] = Remove(@, i)]
     /\ UNCHANGED <<store, nextId, activeTab, entries, loading, selectedDate,
                    takenVars, formData, reportVars, stats, shownRange,
                    appVars, timers, importing>>

\* EntryForm.handleSuggestionClick, the onClick of a row of the dropdown
HandleSuggestionClick(c, suggestion) ==
  /\ renderContent(c) = "entry"
  /\ showSuggestions[c]
  /\ suggestion \in suggestions[c]
  /\ formData' = [formData EXCEPT
       ![c].customerName = suggestion.customer_name,
       ![c].customerAddress = suggestion.customer_address,
       ![c].customerMobile = IF suggestion.customer_mobile = NULL THEN ""
                             ELSE suggestion.customer_mobile[1]]
  /\ showSuggestions' = [showSuggestions EXCEPT ![c] = FALSE]
  /\ firstRender' = [firstRender EXCEPT ![c] = FALSE]
  /\ UNCHANGED <<store, nextId, activeTab, entries, loading, selectedDate,
                 takenVars, reportVars, stats, shownRange, appVars, timers,
                 suggestions, importing, inflight>>

-----------------------------------------------------------------------------
(* TakenEntries *)

\* The table's row buttons can be clicked when the table is rendered and no
\* modal overlay covers it.
RowsClickable(c) ==
  /\ ~loading[c]
  /\ ~(showSettlementModal[c] /\ selectedEntry[c] # NULL)
  /\ ~(showRenewalModal[c] /\ selectedEntry[c] # NULL)

\* TakenEntries.handleSettleClick
HandleSettleClick(c, entry) ==
  /\ renderContent(c) = "taken"
  /\ RowsClickable(c)
  /\ entry \in entries[c]
  /\ selectedEntry' = [selectedEntry EXCEPT ![c] = Some(entry)]
  /\ showSettlementModal' = [showSettlementModal EXCEPT ![c] = TRUE]
  /\ UNCHANGED <<store, nextId, activeTab, entries, loading, selectedDate,
                 showRenewalModal, formData, reportVars, stats, shownRange, appVars, searchVars, importing, inflight>>

\* TakenEntries.handleRenewalClick
HandleRenewalClick(c, entry) ==
  /\ renderContent(c) = "taken"
  /\ RowsClickable(c)
  /\ entry \in entries[c]
  /\ selectedEntry' = [selectedEntry EXCEPT ![c] = Some(entry)]
  /\ showRenewalModal' = [showRenewalModal EXCEPT ![c] = TRUE]
  /\ UNCHANGED <<store, nextId, activeTab, entries, loading, selectedDate,
                 showSettlementModal, formData, reportVars, stats, shownRange, appVars, searchVars, importing, inflight>>

\* The Cancel buttons of the two modals
CancelModal(c) ==
  /\ renderContent(c) = "taken"
  /\ selectedEntry[c] # NULL
  /\ \/ /\ showSettlementModal[c]
        /\ showSettlementModal' = [showSettlementModal EXCEPT ![c] = FALSE]
        /\ UNCHANGED showRenewalModal
     \/ /\ showRenewalModal[c]
        /\ showRenewalModal' = [showRenewalModal EXCEPT ![c] = FALSE]
        /\ UNCHANGED showSettlementModal
  /\ UNCHANGED <<store, nextId, activeTab, entries, loading, selectedDate,
                 selectedEntry, formData, reportVars, stats, shownRange, appVars, searchVars, importing, inflight>>

\* Variant: the settlement also replaces the principal by the total received
SettlePatch_ReplacesPrincipal(selected, total, date, notes) ==
  [ status |-> "settled",
    settled_amount |-> Some(total - selected.given_amount),
    settled_date |-> Some(date),
    settlement_notes |-> IF notes = "" THEN NULL ELSE Some(notes),
    given_amount |-> total ]

\* The update handleSettleSubmit sends for the selected entry
SettlePatch(selected, total, date, notes) ==
  [ status |-> "settled",
    settled_amount |-> Some(total - selected.given_amount),
    settled_date |-> Some(date),
    settlement_notes |-> IF notes = "" THEN NULL ELSE Some(notes) ]

\* TakenEntries.handleSettleSubmit up to its await.  total_amount, date and
\* notes are the settlementData the user has typed; the form submits only
\* if total_amount is at least min = selectedEntry.given_amount.
HandleSettleSubmit(c, total, date, notes, err) ==
  /\ renderContent(c) = "taken"
  /\ showSettlementModal[c]
  /\ selectedEntry[c] # NULL
  /\ total >= selectedEntry[c][1].given_amount
  /\ LET selected == selectedEntry[c][1]
         res == IF err THEN Failed(store)
                ELSE Update(store, selected.id, "active",
                            SettlePatch(selected, total, date, notes))
     IN /\ store' = res.store
        /\ Send(c, [kind |-> "settle", error |-> res.error, rows |-> res.rows,
                    found |-> StatusOf(store, selected.id),
                    id |-> selected.id, entries |-> entries[c],
                    total |-> total, date |-> date, notes |-> notes])
  /\ UNCHANGED <<nextId, activeTab, entries, loading, selectedDate, takenVars,
                 formData, reportVars, stats, shownRange, appVars, searchVars, importing>>

\* selectedEntry.renewal_history || []
HistoryOf(row) ==
  IF row.renewal_history = NULL THEN <<>> ELSE row.renewal_history[1]

\* The update handleRenewalSubmit sends for the selected entry
RenewalPatch(selected, settlement, renewalDate, newLoan) ==
  LET historyEntry == [ date |-> selected.date,
                        amount |-> selected.given_amount,
                        settled_amount |-> settlement,
                        renewal_date |-> renewalDate,
                        new_amount |-> newLoan ]
  IN [ renewal_history |-> Some(Append(HistoryOf(selected), historyEntry)),
       date |-> renewalDate,
       renewal_date |-> Some(renewalDate),
       renewal_amount |-> Some(settlement),
       given_amount |-> newLoan ]

\* TakenEntries.handleRenewalSubmit up to its await
HandleRenewalSubmit(c, settlement, renewalDate, newLoan, err) ==
  /\ renderContent(c) = "taken"
  /\ showRenewalModal[c]
  /\ selectedEntry[c] # NULL
  /\ settlement >= selectedEntry[c][1].given_amount
  /\ newLoan >= 0
  /\ LET selected == selectedEntry[c][1]
         res == IF err THEN Failed(store)
                ELSE Update(store, selected.id, "active",
                            RenewalPatch(selected, settlement, renewalDate,
                                         newLoan))
     IN /\ store' = res.store
        /\ Send(c, [kind |-> "renew", error |-> res.error, rows |-> res.rows,
                    found |-> StatusOf(store, selected.id),
                    id |-> selected.id, selected |-> selected,
                    selectedDate |-> selectedDate[c],
                    settlement |-> settlement, renewalDate |-> renewalDate,
                    newLoan |-> newLoan])
  /\ UNCHANGED <<nextId, activeTab, entries, loading, selectedDate, takenVars,
                 formData, reportVars, stats, shownRange, appVars, searchVars, importing>>

\* TakenEntries.handleDelete up to its await
HandleDelete(c, entry, confirmed, err) ==
  /\ renderContent(c) = "taken"
  /\ RowsClickable(c)
  /\ entry \in entries[c]
  /\ IF confirmed
     THEN LET res == IF err THEN Failed(store) ELSE Delete(store, entry.id)
          IN /\ store' = res.store
             /\ Send(c, [kind |-> "delete", error |-> res.error,
                         rows |-> res.rows, id |-> entry.id,
                         found |-> StatusOf(store, entry.id),
                         entries |-> entries[c]])
     ELSE UNCHANGED <<store, inflight>>
  /\ UNCHANGED <<nextId, activeTab, entries, loading, selectedDate, takenVars,
                 formData, reportVars, stats, shownRange, appVars, searchVars, importing>>

-----------------------------------------------------------------------------
(* SettledEntries *)

\* The update handleRevoke sends
RevokePatch ==
  [ status |-> "active", settled_amount |-> NULL, settled_date |-> NULL,
    settlement_notes |-> NULL ]

\* SettledEntries.handleRevoke up to its await
HandleRevoke(c, entry, confirmed, err) ==
  /\ renderContent(c) = "settled"
  /\ ~loading[c]
  /\ entry \in entries[c]
  /\ IF confirmed
     THEN LET res == IF err THEN Failed(store)
                     ELSE Update(store, entry.id, "settled", RevokePatch)
          IN /\ store' = res.store
             /\ Send(c, [kind |-> "revoke", error |-> res.error,
                         rows |-> res.rows, id |-> entry.id,
                         found |-> StatusOf(store, entry.id)])
     ELSE UNCHANGED <<store, inflight>>
  /\ UNCHANGED <<nextId, activeTab, entries, loading, selectedDate, takenVars,
                 formData, reportVars, stats, shownRange, appVars, searchVars, importing>>

\* The date filter of TakenEntries and SettledEntries: setSelectedDate from
\* the date input or the Clear button (date = NULL is the empty string),
\* then the [selectedDate] effect, which runs the view's fetch with the new
\* filter up to its await.  Setting the value the state already holds
\* renders nothing.
SetSelectedDate(c, date, err) ==
  /\ renderContent(c) \in {"taken", "settled"}
  /\ ~(showSettlementModal[c] /\ selectedEntry[c] # NULL)
  /\ ~(showRenewalModal[c] /\ selectedEntry[c] # NULL)
  /\ date # selectedDate[c]
  /\ selectedDate' = [selectedDate EXCEPT ![c] = date]
  /\ Send(c, IF renderContent(c) = "taken" THEN TakenFetch(store, date, err)
             ELSE SettledFetch(store, date, err))
  /\ UNCHANGED <<store, nextId, activeTab, entries, loading, takenVars,
                 formData, reportVars, stats, shownRange, appVars, searchVars,
                 importing>>

\* SettledEntries.calculateTotalAmount: the Total amount cell of a row
calculateTotalAmount(givenAmount, settledAmount) ==
  givenAmount + settledAmount

-----------------------------------------------------------------------------
(* Report: range selection *)

Leap(y) == (y % 4 = 0 /\ y % 100 # 0) \/ y % 400 = 0

\* new Date(year, month + 1, 0).getDate(): the last day of a month
LastDayOf(y, m) ==
  IF m = 2 THEN (IF Leap(y) THEN 29 ELSE 28)
  ELSE IF m \in {4, 6, 9, 11} THEN 30 ELSE 31

\* handleDateRangeChange('monthly'): first and last day of today's month
MonthRange(today) ==
  [ start |-> FormatDMY(<<today[1], today[2], 1>>),
    end |-> FormatDMY(<<today[1], today[2], LastDayOf(today[1], today[2])>>) ]

\* handleDateRangeChange('yearly'): 1 January and 31 December of this year
YearRange(today) ==
  [ start |-> FormatDMY(<<today[1], 1, 1>>),
    end |-> FormatDMY(<<today[1], 12, 31>>) ]

\* Report.handleDateRangeChange, the onClick of the three mode buttons.
\* setDateRange with a new object makes the [dateRange] effect run
\* fetchEntries after the render, with the state of that render.
HandleDateRangeChange(c, type, err) ==
  /\ renderContent(c) = "report"
  /\ isCustomDate' = [isCustomDate EXCEPT ![c] = type = "custom"]
  /\ reportType' = [reportType EXCEPT ![c] =
                      IF type = "custom" THEN "monthly" ELSE type]
  /\ IF type = "custom"
     THEN UNCHANGED <<dateRange, rangeShared, inflight>>
     ELSE LET range == IF type = "monthly" THEN MonthRange(Today)
                       ELSE YearRange(Today)
          IN /\ dateRange' = [dateRange EXCEPT ![c] = range]
             /\ rangeShared' = [rangeShared EXCEPT ![c] = FALSE]
             /\ Send(c, ReportFetch(store, FALSE, customDateRange[c], range,
                                    err))
  /\ UNCHANGED <<store, nextId, activeTab, entries, loading, selectedDate,
                 takenVars, formData, customDateRange, stats, shownRange,
                 importing, appVars, searchVars>>

\* Report.handleCustomDateChange, the onChange of the two date inputs
\* (rendered in custom mode): `value` is the input's 'yyyy-MM-dd' value
HandleCustomDateChange(c, field, value) ==
  /\ renderContent(c) = "report"
  /\ isCustomDate[c]
  /\ customDateRange' = [customDateRange EXCEPT ![c] =
                           [@ EXCEPT ![field] =
                              <<value[3], value[2], value[1]>>]]
  /\ rangeShared' = [rangeShared EXCEPT ![c] = FALSE]
  /\ UNCHANGED <<store, nextId, activeTab, entries, loading, selectedDate,
                 takenVars, formData, dateRange, isCustomDate, reportType,
                 stats, shownRange, importing, inflight, appVars, searchVars>>

\* startDate > endDate on the Date objects of two 'yyyy-MM-dd' strings
DateAfter(a, b) == ~DateLeq(a, b)

\* Report.applyCustomDateRange, the onClick of Apply (rendered in custom
\* mode).  fetchEntries() is called with the state of the current render;
\* setDateRange(customDateRange) makes the [dateRange] effect call it
\* again unless dateRange already is that object.
ApplyCustomDateRange(c, err, errEffect) ==
  /\ renderContent(c) = "report"
  /\ isCustomDate[c]
  /\ LET custom == customDateRange[c]
     IN IF DateAfter(convertDateFormat(custom.start),
                     convertDateFormat(custom.end))
        THEN UNCHANGED <<dateRange, rangeShared, inflight>>
        ELSE /\ dateRange' = [dateRange EXCEPT ![c] = custom]
             /\ rangeShared' = [rangeShared EXCEPT ![c] = TRUE]
             /\ inflight' = [inflight EXCEPT ![c] =
                  @ \o <<ReportFetch(store, TRUE, custom, dateRange[c], err)>>
                    \o (IF rangeShared[c] THEN <<>>
                        ELSE <<ReportFetch(store, TRUE, custom, custom,
                                           errEffect)>>)]
  /\ UNCHANGED <<store, nextId, activeTab, entries, loading, selectedDate,
                 takenVars, formData, customDateRange, isCustomDate,
                 reportType, stats, shownRange, importing, appVars,
                 searchVars>>

-----------------------------------------------------------------------------
(* Report: import *)

\* Values of a parsed JSON document
Undefined == [t |-> "undefined"]
JsNull == [t |-> "null"]
Num(n) == [t |-> "number", v |-> n]
Str(s) == [t |-> "string", v |-> s]
Obj(fields) == [t |-> "object", f |-> fields]

\* typeof value
TypeOf(value) == IF value.t = "null" THEN "object" ELSE value.t

\* Variant: the type is tested to be a string, not to be a known type
ValidItem_AnyType(item) ==
  /\ TypeOf(item) = "object"
  /\ item # JsNull
  /\ TypeOf(item.f.type) = "string"
  /\ TypeOf(item.f.date) = "string"
  /\ TypeOf(item.f.customer_name) = "string"
  /\ TypeOf(item.f.customer_address) = "string"
  /\ (item.f.customer_mobile = JsNull
        \/ TypeOf(item.f.customer_mobile) = "string")
  /\ TypeOf(item.f.items) = "string"
  /\ TypeOf(item.f.given_amount) = "number"
  /\ item.f.status \in {Str("active"), Str("settled")}
  /\ (item.f.settled_amount = Undefined
        \/ TypeOf(item.f.settled_amount) = "number")
  /\ (item.f.settled_date = Undefined
        \/ TypeOf(item.f.settled_date) = "string")
  /\ (item.f.settlement_notes = Undefined
        \/ item.f.settlement_notes = JsNull
        \/ TypeOf(item.f.settlement_notes) = "string")

\* The test validateImportData applies to one element
ValidItem(item) ==
  /\ TypeOf(item) = "object"
  /\ item # JsNull
  /\ TypeOf(item.f.type) = "string"
  /\ item.f.type \in {Str("NR"), Str("R"), Str("Vyapari")}
  /\ TypeOf(item.f.date) = "string"
  /\ TypeOf(item.f.customer_name) = "string"
  /\ TypeOf(item.f.customer_address) = "string"
  /\ (item.f.customer_mobile = JsNull
        \/ TypeOf(item.f.customer_mobile) = "string")
  /\ TypeOf(item.f.items) = "string"
  /\ TypeOf(item.f.given_amount) = "number"
  /\ item.f.status \in {Str("active"), Str("settled")}
  /\ (item.f.settled_amount = Undefined
        \/ TypeOf(item.f.settled_amount) = "number")
  /\ (item.f.settled_date = Undefined
        \/ TypeOf(item.f.settled_date) = "string")
  /\ (item.f.settlement_notes = Undefined
        \/ item.f.settlement_notes = JsNull
        \/ TypeOf(item.f.settlement_notes) = "string")

\* Report.validateImportData: data.every(...)
validateImportData(data) == \A i \in 1..Len(data) : ValidItem(data[i])

\* The value a nullable column takes from a JSON member
Column(value) ==
  IF value = Undefined \/ value = JsNull THEN NULL ELSE Some(value.v)

\* The row the table builds from one validated element: a member that is
\* absent takes the column default
RowOf(item, id) ==
  [ id |-> id, type |-> item.f.type.v, date |-> item.f.date.v,
    customer_name |-> item.f.customer_name.v,
    customer_address |-> item.f.customer_address.v,
    customer_mobile |-> Column(item.f.customer_mobile),
    items |-> item.f.items.v, given_amount |-> item.f.given_amount.v,
    status |-> item.f.status.v,
    settled_amount |-> Column(item.f.settled_amount),
    settled_date |-> Column(item.f.settled_date),
    settlement_notes |-> Column(item.f.settlement_notes),
    renewal_history |-> Column(item.f.renewal_history),
    renewal_date |-> Column(item.f.renewal_date),
    renewal_amount |-> Column(item.f.renewal_amount) ]

\* supabase.from('entries').insert(data): id is GENERATED ALWAYS, so an
\* element that names an id is refused
InsertJson(st, data, firstId) ==
  IF \E i \in 1..Len(data) : data[i].f.id # Undefined
  THEN Failed(st)
  ELSE Insert(st, {RowOf(data[i], firstId + i - 1) : i \in 1..Len(data)})

\* JSON.stringify of a nullable column, read back by JSON.parse: null, or
\* the value under the tag of its JSON type
\* (an array has typeof "object")
JsonColumn(value, type) ==
  IF value = NULL THEN JsNull ELSE [t |-> type, v |-> value[1]]

\* JSON.stringify of one fetched record, read back by JSON.parse: every
\* column select('*') returned is a member, a null column a null member
JsonOfEntry(r) ==
  Obj([ id |-> Num(r.id), type |-> Str(r.type), date |-> Str(r.date),
        customer_name |-> Str(r.customer_name),
        customer_address |-> Str(r.customer_address),
        customer_mobile |-> JsonColumn(r.customer_mobile, "string"),
        items |-> Str(r.items), given_amount |-> Num(r.given_amount),
        status |-> Str(r.status),
        settled_amount |-> JsonColumn(r.settled_amount, "number"),
        settled_date |-> JsonColumn(r.settled_date, "string"),
        settlement_notes |-> JsonColumn(r.settlement_notes, "string"),
        renewal_history |-> JsonColumn(r.renewal_history, "object"),
        renewal_date |-> JsonColumn(r.renewal_date, "string"),
        renewal_amount |-> JsonColumn(r.renewal_amount, "number") ])

\* The records of the list in the order of the array
RECURSIVE ArrayOf(_)
ArrayOf(list) ==
  IF list = {} THEN <<>>
  ELSE LET first == CHOOSE e \in list : \A o \in list : e.id <= o.id
       IN <<first>> \o ArrayOf(list \ {first})

\* Report.exportToJSON: the document JSON.parse gives for the file written
exportToJSON(list) ==
  LET array == ArrayOf(list)
  IN [k \in 1..Len(array) |-> JsonOfEntry(array[k])]

\* Report.importData up to `await file.text()`: the user has picked a file
\* and the file input holds it.  `file` is the document JSON.parse will
\* give: [array |-> whether it is an array, data |-> its elements].
ChooseFile(c, file) ==
  /\ renderContent(c) = "report"
  /\ importing' = [importing EXCEPT ![c] =
       Some([ file |-> file, isCustomDate |-> isCustomDate[c],
              customDateRange |-> customDateRange[c],
              dateRange |-> dateRange[c] ])]
  /\ UNCHANGED <<store, nextId, activeTab, entries, loading, selectedDate,
                 takenVars, formData, reportVars, stats, shownRange, appVars, searchVars, inflight>>

\* Whether importData reaches its insert for the document
ReachesInsert(file) == file.array /\ validateImportData(file.data)

\* Report.importData from the file's text to its next await, or to its end
\* when the document is refused (the catch block, then the input is reset)
FileRead(c, err) ==
  /\ importing[c] # NULL
  /\ \A i \in 1..Len(inflight[c]) : inflight[c][i].kind # "import"
  /\ LET file == importing[c][1].file
     IN IF ReachesInsert(file)
        THEN LET res == IF err THEN Failed(store)
                        ELSE InsertJson(store, file.data, nextId)
             IN /\ store' = res.store
                /\ nextId' = nextId + res.rows
                /\ Send(c, [kind |-> "import", error |-> res.error,
                            rows |-> res.rows])
                /\ UNCHANGED importing
        ELSE /\ importing' = [importing EXCEPT ![c] = NULL]
             /\ UNCHANGED <<store, nextId, inflight>>
  /\ UNCHANGED <<activeTab, entries, loading, selectedDate, takenVars,
                 formData, reportVars, stats, shownRange, appVars, searchVars>>

-----------------------------------------------------------------------------
(* Responses: the code of each handler after its await *)

\* fetchEntries / fetchSettledEntries / Report.fetchEntries after the await
FetchDone(c, i) ==
  LET r == inflight[c][i]
      shown == renderContent(c) = "report" /\ ~r.error
  IN /\ r.kind = "fetch"
     /\ entries' = [entries EXCEPT ![c] = IF r.error THEN @ ELSE r.data]
     /\ stats' = [stats EXCEPT ![c] =
                    IF shown THEN calculateStats(r.data) ELSE @]
     /\ shownRange' = [shownRange EXCEPT ![c] =
                         IF shown
                         THEN Some([start |-> r.start[1], end |-> r.end[1]])
                         ELSE @]
     /\ loading' = [loading EXCEPT ![c] =
                      IF renderContent(c) \in {"taken", "settled"} THEN FALSE
                      ELSE @]
     /\ inflight' = [inflight EXCEPT ![c] = Remove(@, i)]
     /\ UNCHANGED <<store, nextId, activeTab, selectedDate, takenVars,
                    formData, reportVars, importing, appVars, searchVars>>

\* Variant: the form is reset whether or not the insert succeeded
InsertDone_AlwaysReset(c, i) ==
  LET r == inflight[c][i]
  IN /\ r.kind = "insert"
     /\ formData' = [formData EXCEPT ![c] = DefaultForm]
     /\ inflight' = [inflight EXCEPT ![c] = Remove(@, i)]
     /\ UNCHANGED <<store, nextId, activeTab, entries, loading, selectedDate,
                    takenVars, reportVars, stats, shownRange, appVars, searchVars, importing>>

\* EntryForm.handleSubmit after the await
InsertDone(c, i) ==
  LET r == inflight[c][i]
  IN /\ r.kind = "insert"
     /\ formData' = [formData EXCEPT ![c] = IF r.error THEN @ ELSE DefaultForm]
     /\ inflight' = [inflight EXCEPT ![c] = Remove(@, i)]
     /\ UNCHANGED <<store, nextId, activeTab, entries, loading, selectedDate,
                    takenVars, reportVars, stats, shownRange, appVars, searchVars, importing>>

\* Variant: the entry is filtered out only if the update changed a row
SettleDone_IfChanged(c, i) ==
  LET r == inflight[c][i]
  IN /\ r.kind = "settle"
     /\ showSettlementModal' =
          [showSettlementModal EXCEPT ![c] = IF r.error THEN @ ELSE FALSE]
     /\ entries' = [entries EXCEPT ![c] =
                      IF r.error \/ r.rows = 0 THEN @
                      ELSE WithoutId(r.entries, r.id)]
     /\ inflight' = [inflight EXCEPT ![c] = Remove(@, i)]
     /\ UNCHANGED <<store, nextId, activeTab, loading, selectedDate,
                    selectedEntry, showRenewalModal, formData, reportVars,
                    stats, shownRange, appVars, searchVars, importing>>

\* TakenEntries.handleSettleSubmit after the await
SettleDone(c, i) ==
  LET r == inflight[c][i]
  IN /\ r.kind = "settle"
     /\ showSettlementModal' =
          [showSettlementModal EXCEPT ![c] = IF r.error THEN @ ELSE FALSE]
     /\ entries' = [entries EXCEPT ![c] =
                      IF r.error THEN @ ELSE WithoutId(r.entries, r.id)]
     /\ inflight' = [inflight EXCEPT ![c] = Remove(@, i)]
     /\ UNCHANGED <<store, nextId, activeTab, loading, selectedDate,
                    selectedEntry, showRenewalModal, formData, reportVars,
                    stats, shownRange, appVars, searchVars, importing>>

\* TakenEntries.handleRenewalSubmit after the await: on success the modal
\* is closed and fetchEntries() is called, with the selectedDate of the
\* render that created the handler.
RenewalDone(c, i, err) ==
  LET r == inflight[c][i]
  IN /\ r.kind = "renew"
     /\ showRenewalModal' =
          [showRenewalModal EXCEPT ![c] = IF r.error THEN @ ELSE FALSE]
     /\ inflight' = [inflight EXCEPT ![c] =
                       IF r.error THEN Remove(@, i)
                       ELSE Append(Remove(@, i),
                                   TakenFetch(store, r.selectedDate, err))]
     /\ UNCHANGED <<store, nextId, activeTab, entries, loading, selectedDate,
                    selectedEntry, showSettlementModal, formData, reportVars,
                    stats, shownRange, appVars, searchVars, importing>>

\* Variant: the entry is filtered out whatever the delete answered
DeleteDone_AlwaysFilter(c, i) ==
  LET r == inflight[c][i]
  IN /\ r.kind = "delete"
     /\ entries' = [entries EXCEPT ![c] = WithoutId(r.entries, r.id)]
     /\ inflight' = [inflight EXCEPT ![c] = Remove(@, i)]
     /\ UNCHANGED <<store, nextId, activeTab, loading, selectedDate, takenVars,
                    formData, reportVars, stats, shownRange, appVars,
                    searchVars, importing>>

\* TakenEntries.handleDelete after the await
DeleteDone(c, i) ==
  LET r == inflight[c][i]
  IN /\ r.kind = "delete"
     /\ entries' = [entries EXCEPT ![c] =
                      IF r.error THEN @ ELSE WithoutId(r.entries, r.id)]
     /\ inflight' = [inflight EXCEPT ![c] = Remove(@, i)]
     /\ UNCHANGED <<store, nextId, activeTab, loading, selectedDate, takenVars,
                    formData, reportVars, stats, shownRange, appVars, searchVars, importing>>

\* Variant: the entry is filtered out whatever the update answered
RevokeDone_AlwaysFilter(c, i) ==
  LET r == inflight[c][i]
  IN /\ r.kind = "revoke"
     /\ entries' = [entries EXCEPT ![c] = WithoutId(@, r.id)]
     /\ inflight' = [inflight EXCEPT ![c] = Remove(@, i)]
     /\ UNCHANGED <<store, nextId, activeTab, loading, selectedDate, takenVars,
                    formData, reportVars, stats, shownRange, appVars,
                    searchVars, importing>>

\* SettledEntries.handleRevoke after the await
RevokeDone(c, i) ==
  LET r == inflight[c][i]
  IN /\ r.kind = "revoke"
     /\ entries' = [entries EXCEPT ![c] =
                      IF r.error THEN @ ELSE WithoutId(@, r.id)]
     /\ inflight' = [inflight EXCEPT ![c] = Remove(@, i)]
     /\ UNCHANGED <<store, nextId, activeTab, loading, selectedDate, takenVars,
                    formData, reportVars, stats, shownRange, appVars, searchVars, importing>>

\* Report.importData after the insert's await: on success fetchEntries()
\* is called with the range state of the render that created the handler;
\* in either case the file input is reset.
ImportDone(c, i, err) ==
  LET r == inflight[c][i]
      at == importing[c][1]
  IN /\ r.kind = "import"
     /\ inflight' = [inflight EXCEPT ![c] =
                       IF r.error THEN Remove(@, i)
                       ELSE Append(Remove(@, i),
                                   ReportFetch(store, at.isCustomDate,
                                               at.customDateRange,
                                               at.dateRange, err))]
     /\ importing' = [importing EXCEPT ![c] = NULL]
     /\ UNCHANGED <<store, nextId, activeTab, entries, loading, selectedDate,
                    takenVars, formData, reportVars, stats, shownRange, appVars, searchVars>>

-----------------------------------------------------------------------------
(* Inputs *)

\* Drafts a user fills in: the type varies, the other fields are fixed
Drafts ==
  { [ type |-> t, date |-> FormatDMY(Today), customerName |-> "ann",
      customerAddress |-> "pune", customerMobile |-> "", items |-> "ring",
      givenAmount |-> MaxAmount ] : t \in {"NR", "R"} }

\* Settlement dates and renewal dates a user picks
SettleDates == {Today}
RenewalDates == {Later}

Notes == {"", "paid"}

\* Elements of imported documents
Item(type, given, status, settledAmount, settledDate, notes) ==
  Obj([ id |-> Undefined, type |-> type, date |-> Str(Today),
        customer_name |-> Str("ann"), customer_address |-> Str("pune"),
        customer_mobile |-> JsNull, items |-> Str("ring"),
        given_amount |-> given, status |-> status,
        settled_amount |-> settledAmount, settled_date |-> settledDate,
        settlement_notes |-> notes, renewal_history |-> Undefined,
        renewal_date |-> Undefined, renewal_amount |-> Undefined ])

ActiveItem ==
  Item(Str("NR"), Num(MaxAmount), Str("active"), Undefined, Undefined,
       Undefined)
NotedItem ==
  Item(Str("NR"), Num(MaxAmount), Str("active"), Undefined, Undefined,
       Str("old"))
SettledItem ==
  Item(Str("R"), Num(MaxAmount), Str("settled"), Num(1), Str(Today),
       Undefined)
HalfSettledItem ==
  Item(Str("NR"), Num(MaxAmount), Str("settled"), Undefined, Undefined,
       Undefined)
NegativeItem ==
  Item(Str("NR"), Num(-1), Str("active"), Undefined, Undefined, Undefined)
BadTypeItem ==
  Item(Str("Gold"), Num(MaxAmount), Str("active"), Undefined, Undefined,
       Undefined)
\* An active element naming a renewal date and amount but no history
RenewedItem ==
  [ActiveItem EXCEPT !.f.renewal_date = Str(Later),
                     !.f.renewal_amount = Num(MaxAmount)]
BadStatusItem ==
  Item(Str("NR"), Num(MaxAmount), Str("closed"), Undefined, Undefined,
       Undefined)

\* Documents a user imports
ImportFiles ==
  { [array |-> TRUE, data |-> d] :
      d \in { <<ActiveItem>>, <<NotedItem>>, <<SettledItem>>,
              <<HalfSettledItem>>, <<NegativeItem>>, <<BadTypeItem>>,
              <<RenewedItem>>,
              <<ActiveItem, BadStatusItem>>, <<BadTypeItem, ActiveItem>> } }
  \cup { [array |-> FALSE, data |-> <<>>] }

\* A session acts again once the handler it started has run to its end
Idle(c) == inflight[c] = <<>> /\ importing[c] = NULL

\* The steps a user starts: one disjunct for each handler.  The guards
\* next to the handlers keep the identity column and the renewal history
\* within the bounds.
UserAction ==
  \/ \E c \in Clients, tab \in Tabs, err \in BOOLEAN :
        Idle(c) /\ SetActiveTab(c, tab, err)
  \/ \E c \in Clients, draft \in Drafts : Idle(c) /\ ChangeForm(c, draft)
  \/ \E c \in Clients, err \in BOOLEAN :
        Idle(c) /\ nextId <= MaxId /\ HandleSubmit(c, err)
  \/ \E c \in Clients : \E entry \in entries[c] :
        Idle(c) /\ HandleSettleClick(c, entry)
  \/ \E c \in Clients : \E entry \in entries[c] :
        Idle(c) /\ HandleRenewalClick(c, entry)
  \/ \E c \in Clients : Idle(c) /\ CancelModal(c)
  \/ \E c \in Clients, total \in Amounts, date \in SettleDates,
        notes \in Notes, err \in BOOLEAN :
        Idle(c) /\ HandleSettleSubmit(c, total, date, notes, err)
  \/ \E c \in Clients, settlement \in Amounts, date \in RenewalDates,
        newLoan \in Amounts, err \in BOOLEAN :
        /\ Idle(c)
        /\ selectedEntry[c] # NULL
        /\ Len(HistoryOf(selectedEntry[c][1])) < MaxRenewals
        /\ HandleRenewalSubmit(c, settlement, date, newLoan, err)
  \/ \E c \in Clients, confirmed \in BOOLEAN, err \in BOOLEAN :
        \E entry \in entries[c] :
          Idle(c) /\ HandleDelete(c, entry, confirmed, err)
  \/ \E c \in Clients, confirmed \in BOOLEAN, err \in BOOLEAN :
        \E entry \in entries[c] :
          Idle(c) /\ HandleRevoke(c, entry, confirmed, err)
  \/ \E c \in Clients, file \in ImportFiles :
        /\ Idle(c)
        /\ ReachesInsert(file) => nextId <= MaxId
        /\ ChooseFile(c, file)

\* The steps that run a started handler on from an await
Continuation ==
  \/ \E c \in Clients, session \in {NULL, Account}, failed \in BOOLEAN,
        err \in BOOLEAN : CheckSessionDone(c, session, failed, err)
  \/ \E c \in Clients, err \in BOOLEAN :
        /\ importing[c] # NULL
        /\ ReachesInsert(importing[c][1].file) => nextId <= MaxId
        /\ FileRead(c, err)
  \/ \E c \in Clients : \E i \in 1..Len(inflight[c]) : FetchDone(c, i)
  \/ \E c \in Clients : \E i \in 1..Len(inflight[c]) : InsertDone(c, i)
  \/ \E c \in Clients : \E i \in 1..Len(inflight[c]) : SettleDone(c, i)
  \/ \E c \in Clients, err \in BOOLEAN :
        \E i \in 1..Len(inflight[c]) : RenewalDone(c, i, err)
  \/ \E c \in Clients : \E i \in 1..Len(inflight[c]) : DeleteDone(c, i)
  \/ \E c \in Clients : \E i \in 1..Len(inflight[c]) : RevokeDone(c, i)
  \/ \E c \in Clients, err \in BOOLEAN :
        \E i \in 1..Len(inflight[c]) : ImportDone(c, i, err)

Next == UserAction \/ Continuation

Spec == Init /\ [][Next]_vars

-----------------------------------------------------------------------------
(* Two sessions working on a table of two entries *)

\* The table after the entry form has stored two entries; both sessions
\* are signed in and show the entry form
InitTwoEntries ==
  /\ store = { NewRow(1, "NR", Today, "ann", "pune", NULL, "ring", MaxAmount),
               NewRow(2, "R", Today, "ann", "pune", NULL, "ring", MaxAmount) }
  /\ nextId = 3
  /\ activeTab = [c \in Clients |-> "entry"]
  /\ SignedIn
  /\ ComponentsInitial

\* The handlers of TakenEntries and SettledEntries, with every request
\* reaching the table
NextTwoEntries ==
  \/ \E c \in Clients, tab \in {"taken", "settled"} :
        Idle(c) /\ SetActiveTab(c, tab, FALSE)
  \/ \E c \in Clients : \E entry \in entries[c] :
        Idle(c) /\ HandleSettleClick(c, entry)
  \/ \E c \in Clients : \E entry \in entries[c] :
        Idle(c) /\ HandleRenewalClick(c, entry)
  \/ \E c \in Clients : Idle(c) /\ CancelModal(c)
  \/ \E c \in Clients, total \in Amounts, date \in SettleDates :
        Idle(c) /\ HandleSettleSubmit(c, total, date, "", FALSE)
  \/ \E c \in Clients, settlement \in Amounts, date \in RenewalDates,
        newLoan \in Amounts :
        /\ Idle(c)
        /\ selectedEntry[c] # NULL
        /\ Len(HistoryOf(selectedEntry[c][1])) < MaxRenewals
        /\ HandleRenewalSubmit(c, settlement, date, newLoan, FALSE)
  \/ \E c \in Clients, confirmed \in BOOLEAN : \E entry \in entries[c] :
        Idle(c) /\ HandleDelete(c, entry, confirmed, FALSE)
  \/ \E c \in Clients, confirmed \in BOOLEAN : \E entry \in entries[c] :
        Idle(c) /\ HandleRevoke(c, entry, confirmed, FALSE)
  \/ \E c \in Clients : \E i \in 1..Len(inflight[c]) : FetchDone(c, i)
  \/ \E c \in Clients : \E i \in 1..Len(inflight[c]) : SettleDone(c, i)
  \/ \E c \in Clients : \E i \in 1..Len(inflight[c]) :
        RenewalDone(c, i, FALSE)
  \/ \E c \in Clients : \E i \in 1..Len(inflight[c]) : DeleteDone(c, i)
  \/ \E c \in Clients : \E i \in 1..Len(inflight[c]) : RevokeDone(c, i)

SpecTwoEntries == InitTwoEntries /\ [][NextTwoEntries]_vars

-----------------------------------------------------------------------------
(* One session reading the report of a stored table *)

MaxRows == 3       \* rows of the table the report is drawn from

\* Days inside today's month, inside this year only, and in another year
MonthEnd == <<2025, 1, 31>>
YearEnd == <<2025, 12, 31>>
LastYear == <<2024, 12, 31>>

\* A stored entry after handleSettleSubmit has settled it
SettledRow(row, total, date) ==
  [row EXCEPT !.status = "settled",
              !.settled_amount = Some(total - row.given_amount),
              !.settled_date = Some(date)]

\* The entries a table holds under the given id
ReportRows(id) ==
  LET nr == NewRow(id, "NR", Today, "ann", "pune", NULL, "ring", 1)
      r == NewRow(id, "R", MonthEnd, "bob", "pune", NULL, "ring", 2)
      far == NewRow(id, "R", YearEnd, "bob", "pune", NULL, "ring", 1)
      old == NewRow(id, "NR", LastYear, "ann", "pune", NULL, "ring", 2)
  IN { nr, r, far, SettledRow(nr, 3, Later), SettledRow(r, 2, MonthEnd),
       SettledRow(old, 1, Today) }

\* Tables of n rows, numbered by the identity column
RECURSIVE Tables(_)
Tables(n) ==
  IF n = 0 THEN {{}}
  ELSE {t \cup {row} : t \in Tables(n - 1), row \in ReportRows(n)}

\* Dates a user picks in the custom range inputs
CustomDates == {Today, Later}

Viewers == {"c1"}

InitReport ==
  /\ \E n \in 0..MaxRows : store \in Tables(n) /\ nextId = n + 1
  /\ activeTab = [c \in Clients |-> "entry"]
  /\ SignedIn
  /\ ComponentsInitial

NextReport ==
  \/ \E c \in Viewers, tab \in {"entry", "report"}, err \in BOOLEAN :
        Idle(c) /\ SetActiveTab(c, tab, err)
  \/ \E c \in Viewers, type \in {"monthly", "yearly", "custom"},
        err \in BOOLEAN : Idle(c) /\ HandleDateRangeChange(c, type, err)
  \/ \E c \in Viewers, field \in {"start", "end"}, value \in CustomDates :
        Idle(c) /\ HandleCustomDateChange(c, field, value)
  \/ \E c \in Viewers, err \in BOOLEAN, errEffect \in BOOLEAN :
        Idle(c) /\ ApplyCustomDateRange(c, err, errEffect)
  \/ \E c \in Viewers, file \in ImportFiles :
        /\ Idle(c)
        /\ ReachesInsert(file) => nextId <= MaxRows
        /\ ChooseFile(c, file)
  \/ \E c \in Viewers, err \in BOOLEAN :
        /\ importing[c] # NULL
        /\ ReachesInsert(importing[c][1].file) => nextId <= MaxRows
        /\ FileRead(c, err)
  \/ \E c \in Viewers : \E i \in 1..Len(inflight[c]) : FetchDone(c, i)
  \/ \E c \in Viewers, err \in BOOLEAN :
        \E i \in 1..Len(inflight[c]) : ImportDone(c, i, err)

SpecReport == InitReport /\ [][NextReport]_vars

-----------------------------------------------------------------------------
(* One session typing into the customer name field *)

MaxPending == 2    \* debounced calls pending, and searches awaited, at once

\* Values of the name field
NameValues == {"", "a", "An"}

Typists == {"c1"}

NextSearch ==
  \/ \E c \in Typists, tab \in {"entry", "taken"} :
        SetActiveTab(c, tab, FALSE)
  \/ \E c \in Typists, value \in NameValues :
        Len(timers[c]) < MaxPending /\ HandleCustomerNameChange(c, value)
  \/ Tick
  \/ \E c \in Typists, k \in 1..MaxPending, err \in BOOLEAN :
        Len(inflight[c]) < MaxPending /\ SearchCustomers(c, k, err)
  \/ \E c \in Typists : \E i \in 1..Len(inflight[c]) : SearchDone(c, i)
  \/ \E c \in Typists : \E i \in 1..Len(inflight[c]) : FetchDone(c, i)
  \/ \E c \in Typists : \E suggestion \in suggestions[c] :
        HandleSuggestionClick(c, suggestion)

SpecSearch == InitTwoEntries /\ [][NextSearch]_vars

-----------------------------------------------------------------------------
(* The customer search over a table of more customers than the search
   returns *)

\* Seven entries of six customers, one of them with a mobile number and one
\* entered twice with two addresses
InitSuggest ==
  /\ store = { NewRow(1, "NR", Today, "ann", "pune", NULL, "ring", MaxAmount),
               NewRow(2, "R", Today, "ann", "goa", NULL, "ring", MaxAmount),
               NewRow(3, "NR", Today, "abe", "pune", NULL, "ring", MaxAmount),
               NewRow(4, "NR", Today, "ada", "pune", NULL, "ring", MaxAmount),
               NewRow(5, "NR", Today, "amy", "pune", Some("98"), "ring",
                      MaxAmount),
               NewRow(6, "NR", Today, "ava", "pune", NULL, "ring", MaxAmount),
               NewRow(7, "NR", Today, "aya", "pune", NULL, "ring", MaxAmount) }
  /\ nextId = 8
  /\ activeTab = [c \in Clients |-> "entry"]
  /\ SignedIn
  /\ ComponentsInitial

\* The typist changes the name, waits for the search and its answer, and
\* may select a suggestion: one search at a time
NextSuggest ==
  \/ \E c \in Typists, value \in NameValues :
        /\ timers[c] = <<>>
        /\ inflight[c] = <<>>
        /\ HandleCustomerNameChange(c, value)
  \/ Tick
  \/ \E c \in Typists, err \in BOOLEAN : SearchCustomers(c, 1, err)
  \/ \E c \in Typists : \E i \in 1..Len(inflight[c]) : SearchDone(c, i)
  \/ \E c \in Typists : \E suggestion \in suggestions[c] :
        HandleSuggestionClick(c, suggestion)

SpecSuggest == InitSuggest /\ [][NextSuggest]_vars

-----------------------------------------------------------------------------
(* The date filter of the two list views over a table that does not change *)

\* Two active and two settled entries, of two dates each
InitFilter ==
  /\ store = { NewRow(1, "NR", Today, "ann", "pune", NULL, "ring", MaxAmount),
               NewRow(2, "R", Later, "bob", "pune", NULL, "ring", MaxAmount),
               SettledRow(NewRow(3, "NR", Today, "ann", "pune", NULL, "ring",
                                 MaxAmount), MaxAmount, Today),
               SettledRow(NewRow(4, "R", Today, "bob", "pune", NULL, "ring",
                                 MaxAmount), MaxAmount, Later) }
  /\ nextId = 5
  /\ activeTab = [c \in Clients |-> "entry"]
  /\ SignedIn
  /\ ComponentsInitial

FilterDates == {NULL, Today, Later}

\* A session opens the list views and changes the date filter, also while
\* fetches are awaited; every request is answered without an error
NextFilter ==
  \/ \E c \in Clients, tab \in {"entry", "taken", "settled"} :
        SetActiveTab(c, tab, FALSE)
  \/ \E c \in Clients, date \in FilterDates :
        Len(inflight[c]) < MaxPending /\ SetSelectedDate(c, date, FALSE)
  \/ \E c \in Clients : \E i \in 1..Len(inflight[c]) : FetchDone(c, i)

SpecFilter == InitFilter /\ [][NextFilter]_vars

-----------------------------------------------------------------------------
(* The application shell over a table of two entries *)

\* App's first render in each session; the table holds two entries
InitShell ==
  /\ store = { NewRow(1, "NR", Today, "ann", "pune", NULL, "ring", MaxAmount),
               NewRow(2, "R", Today, "ann", "pune", NULL, "ring", MaxAmount) }
  /\ nextId = 3
  /\ activeTab = [c \in Clients |-> "entry"]
  /\ user = [c \in Clients |-> NULL]
  /\ isLoading = [c \in Clients |-> TRUE]
  /\ checking = [c \in Clients |-> TRUE]
  /\ notified = [c \in Clients |-> NULL]
  /\ ComponentsInitial

\* Session-change notifications: a sign-in through the sign-in form, a
\* sign-out, the initial session
Notification ==
  \E c \in Clients, session \in {NULL, Account}, err \in BOOLEAN :
    AuthStateChange(c, session, err)

NextShell ==
  \/ \E c \in Clients, session \in {NULL, Account}, failed \in BOOLEAN,
        err \in BOOLEAN : CheckSessionDone(c, session, failed, err)
  \/ Notification
  \/ \E c \in Clients, failed \in BOOLEAN :
        AppResponses(inflight[c]) = <<>> /\ HandleSignOut(c, failed)
  \/ \E c \in Clients, err \in BOOLEAN :
        \E i \in 1..Len(inflight[c]) : SignOutDone(c, i, err)
  \/ \E c \in Clients, tab \in Tabs, err \in BOOLEAN :
        SetActiveTab(c, tab, err)
  \/ \E c \in Clients : \E i \in 1..Len(inflight[c]) : FetchDone(c, i)

SpecShell == InitShell /\ [][NextShell]_vars

\* The startup check returns: getSession() resolves or rejects
SpecShellLive ==
  /\ SpecShell
  /\ \A c \in Clients :
       WF_vars(\E session \in {NULL, Account}, failed \in BOOLEAN,
                  err \in BOOLEAN : CheckSessionDone(c, session, failed, err))

-----------------------------------------------------------------------------
(* Properties *)

\* Session c issued a request of the given kind in this step
Sent(c, kind) ==
  /\ Len(inflight'[c]) = Len(inflight[c]) + 1
  /\ inflight'[c][Len(inflight'[c])].kind = kind

\* The response to the request session c issued in this step
NewResponse(c) == inflight'[c][Len(inflight'[c])]

\* The response r of session c is delivered in this step
Delivered(c, r) ==
  /\ renderContent(c)' = renderContent(c)
  /\ \E i \in 1..Len(inflight[c]) :
       /\ inflight[c][i] = r
       /\ \/ inflight'[c] = Remove(inflight[c], i)
          \/ /\ inflight'[c] # inflight[c]
             /\ Len(inflight'[c]) = Len(inflight[c])
             /\ SubSeq(inflight'[c], 1, Len(inflight[c]) - 1)
                  = Remove(inflight[c], i)

Responses(c) == {inflight[c][i] : i \in 1..Len(inflight[c])}

RowWith(st, id) == CHOOSE r \in st : r.id = id

IsPrefix(a, b) == Len(a) <= Len(b) /\ SubSeq(b, 1, Len(a)) = a

\* C1: in every reachable state each stored entry has settled_amount and
\* settled_date both non-null if and only if its status is 'settled'.
C1_SettledFieldsIffSettled ==
  \A r \in store :
    (r.settled_amount # NULL /\ r.settled_date # NULL) <=> r.status = "settled"

\* A renewed entry has been settled.
C1_Witness ==
  \E r \in store : r.status = "settled" /\ r.renewal_history # NULL

\* C2: a settle with total_amount >= given_amount whose write takes effect
\* leaves the entry settled, with the given date, and with settled_amount =
\* total_amount minus the given_amount the stored entry holds at the time
\* of the write.
C2_SettleSubtractsStoredAmount ==
  [][\A c \in Clients :
       Sent(c, "settle") =>
         LET r == NewResponse(c)
         IN (r.rows = 1 /\ r.total >= RowWith(store, r.id).given_amount) =>
              LET old == RowWith(store, r.id)
                  new == RowWith(store', r.id)
              IN /\ new.status = "settled"
                 /\ new.settled_date = Some(r.date)
                 /\ new.settled_amount = Some(r.total - old.given_amount)]_vars

\* C3: a renew whose write takes effect appends exactly one element to the
\* stored renewal_history, built from the stored date and given_amount
\* before the write and the three inputs, and leaves the entry active with
\* date, given_amount, renewal_date and renewal_amount set from the inputs.
C3_RenewAppendsStoredCycle ==
  [][\A c \in Clients :
       Sent(c, "renew") =>
         LET r == NewResponse(c)
         IN r.rows = 1 =>
              LET old == RowWith(store, r.id)
                  new == RowWith(store', r.id)
              IN /\ new.renewal_history # NULL
                 /\ HistoryOf(new) =
                      Append(HistoryOf(old),
                             [ date |-> old.date, amount |-> old.given_amount,
                               settled_amount |-> r.settlement,
                               renewal_date |-> r.renewalDate,
                               new_amount |-> r.newLoan ])
                 /\ new.date = r.renewalDate
                 /\ new.given_amount = r.newLoan
                 /\ new.renewal_date = Some(r.renewalDate)
                 /\ new.renewal_amount = Some(r.settlement)
                 /\ new.status = "active"]_vars

\* C4: renewal_history is append-only: in every step, for every stored
\* entry, the history before the step is a prefix of the history after it.
C4_HistoryAppendOnly ==
  [][\A old \in store : \A new \in store' :
       old.id = new.id => IsPrefix(HistoryOf(old), HistoryOf(new))]_vars

\* C5: revoking a settled entry makes it active, nulls the three settlement
\* fields and changes nothing else; a settle followed by a revoke gives the
\* entry back the field values it had before the settle; revoking an entry
\* that is active changes nothing.
C5_RevokeUndoesSettle ==
  [][\A c \in Clients :
       /\ Sent(c, "revoke") =>
            LET r == NewResponse(c)
            IN /\ (r.found = "settled" /\ ~r.error) =>
                    store' = (store \ {RowWith(store, r.id)}) \cup
                      {[RowWith(store, r.id) EXCEPT
                          !.status = "active", !.settled_amount = NULL,
                          !.settled_date = NULL, !.settlement_notes = NULL]}
               /\ r.found = "active" => store' = store
       /\ Sent(c, "settle") =>
            LET r == NewResponse(c)
            IN r.rows = 1 =>
                 Update(store', r.id, "settled", RevokePatch).store = store]_vars

\* C6: a record the entry form inserts is active with null settlement and
\* renewal fields; when the insert succeeded the form is reset to its
\* defaults, and when it failed the form keeps the submitted values.
C6_FormInsertsActiveAndResets ==
  [][\A c \in Clients :
       /\ (Sent(c, "insert") /\ ~NewResponse(c).error) =>
            \E row \in store' :
              /\ row \notin store
              /\ store' = store \cup {row}
              /\ row.status = "active"
              /\ row.settled_amount = NULL
              /\ row.settled_date = NULL
              /\ row.settlement_notes = NULL
              /\ row.renewal_history = NULL
              /\ row.renewal_date = NULL
              /\ row.renewal_amount = NULL
       /\ \A r \in Responses(c) :
            (r.kind = "insert" /\ Delivered(c, r)) =>
              formData'[c] = IF r.error THEN r.submitted ELSE DefaultForm]_vars

\* One session's insert has succeeded and another's has failed; both
\* forms still hold the submitted draft.
C6_Witness ==
  \E c, d \in Clients :
    /\ \E r \in Responses(c) : r.kind = "insert" /\ ~r.error
    /\ \E r \in Responses(d) :
         r.kind = "insert" /\ r.error /\ formData[d] # DefaultForm

C8_MismatchedWriteIsNoOp ==
  [][\A c \in Clients :
       /\ (Sent(c, "settle") /\ NewResponse(c).found # "active")
            => store' = store
       /\ (Sent(c, "renew") /\ NewResponse(c).found # "active")
            => store' = store
       /\ (Sent(c, "revoke") /\ NewResponse(c).found # "settled")
            => store' = store]_vars

\* A renew was sent from a list loaded before another session settled the
\* record; the write matched no row and returned no error.
C8_Witness ==
  \E c \in Clients : \E r \in Responses(c) :
    /\ r.kind = "renew"
    /\ r.found = "settled"
    /\ r.rows = 0
    /\ ~r.error
    /\ r.selected.status = "active"
    /\ \E q \in store : q.id = r.id /\ q.status = "settled"
    /\ \E q \in store : q.id # r.id /\ q.status = "active"

\* C9 as stated: when a settle or renew write changes no row and returns
\* no error, the entry stays in the issuing session's list.
C9_StaleEntryStays ==
  [][\A c \in Clients : \A r \in Responses(c) :
       ( /\ r.kind \in {"settle", "renew"}
         /\ ~r.error
         /\ r.rows = 0
         /\ Delivered(c, r)
         /\ \E e \in entries[c] : e.id = r.id )
       => \E e \in entries'[c] : e.id = r.id]_vars

\* C9 amended: the response of a settle write that changed no row and
\* returned no error is handled as a success: the modal is closed and the
\* entry is filtered out of the session's list.  That of a renew write
\* closes the modal and replaces the response by a fetch of the active
\* records.
C9_ZeroRowWriteHandledAsSuccess ==
  [][\A c \in Clients : \A r \in Responses(c) :
       ( /\ r.kind \in {"settle", "renew"}
         /\ ~r.error
         /\ r.rows = 0
         /\ Delivered(c, r) ) =>
         /\ r.kind = "settle" =>
              /\ ~showSettlementModal'[c]
              /\ ~\E e \in entries'[c] : e.id = r.id
         /\ r.kind = "renew" =>
              /\ ~showRenewalModal'[c]
              /\ entries'[c] = entries[c]
              /\ inflight'[c][Len(inflight'[c])].kind = "fetch"
              /\ ~inflight'[c][Len(inflight'[c])].error =>
                   inflight'[c][Len(inflight'[c])].data
                     = SelectActive(store, r.selectedDate)]_vars

\* The response of a settle that changed no row has been handled: the list
\* was loaded with the entry, another session settled it, and the entry is
\* gone from the list although this session's write did nothing.
C9_Witness ==
  \E c \in Clients :
    /\ renderContent(c) = "taken"
    /\ ~loading[c]
    /\ inflight[c] = <<>>
    /\ selectedEntry[c] # NULL
    /\ ~showSettlementModal[c]
    /\ ~\E e \in entries[c] : e.id = selectedEntry[c][1].id
    /\ \E q \in store :
         /\ q.id = selectedEntry[c][1].id
         /\ q.status = "settled"
         /\ q.settlement_notes # NULL
         /\ selectedEntry[c][1].renewal_history = NULL
         /\ q.renewal_history # NULL

\* A document that is no array, or that holds an element whose type or
\* status is outside the closed sets
Refusable(file) ==
  \/ ~file.array
  \/ \E i \in 1..Len(file.data) :
       \/ file.data[i].f.type \notin {Str("NR"), Str("R"), Str("Vyapari")}
       \/ file.data[i].f.status \notin {Str("active"), Str("settled")}

\* C10: when the imported document is no array or holds an element that
\* fails validation, the handler ends without issuing a request and leaves
\* the table and the displayed report as they were.
C10_ImportAllOrNothing ==
  [][\A c \in Clients :
       ( /\ importing[c] # NULL
         /\ Refusable(importing[c][1].file)
         /\ importing'[c] # importing[c] )
       => UNCHANGED <<store, nextId, entries, stats, inflight>>]_vars

\* The handler holds a document with one valid and one invalid element,
\* while the table and the displayed report are not empty.
C10_Witness ==
  \E c \in Clients :
    /\ importing[c] # NULL
    /\ importing[c][1].file.data = <<ActiveItem, BadStatusItem>>
    /\ store # {}
    /\ entries[c] # {}
    /\ stats[c].totalLoans > 0

\* The sum of the values of a function with a finite domain
RECURSIVE SumOf(_)
SumOf(f) ==
  IF DOMAIN f = {} THEN 0
  ELSE LET x == CHOOSE x \in DOMAIN f : TRUE
       IN f[x] + SumOf([y \in DOMAIN f \ {x} |-> f[y]])

\* The records a list holds with the given status
WithStatus(data, status) == {e \in data : e.status = status}

\* C11: for every record set the report has fetched, totalLoans is the
\* number of records, totalInvested the sum of given_amount over all of
\* them, totalEarned the sum of settled_amount (0 when absent) over the
\* settled ones only, and profit is totalEarned - totalInvested.
C11_ReportTotals ==
  \A c \in Clients :
    renderContent(c) = "report" =>
      LET data == entries[c]
          earned == SumOf([e \in WithStatus(data, "settled") |->
                             IF e.settled_amount = NULL THEN 0
                             ELSE e.settled_amount[1]])
          invested == SumOf([e \in data |-> e.given_amount])
      IN /\ stats[c].totalLoans = Cardinality(data)
         /\ stats[c].totalInvested = invested
         /\ stats[c].totalEarned = earned
         /\ stats[c].profit = earned - invested

\* A report of three records, one of them active, with a profit
C11_Witness ==
  /\ renderContent("c1") = "report"
  /\ shownRange["c1"] # NULL
  /\ Cardinality(entries["c1"]) = 3
  /\ Cardinality(WithStatus(entries["c1"], "active")) = 1
  /\ stats["c1"].totalEarned > 0
  /\ stats["c1"].profit > 0

\* C12: in every computed report the per-type breakdown partitions the
\* overall statistics: summed over the types, total, active, settled,
\* invested and earned give totalLoans, activeLoans, settledLoans,
\* totalInvested and totalEarned; each type has total = active + settled,
\* and totalLoans = activeLoans + settledLoans.
C12_BreakdownPartitions ==
  \A c \in Clients :
    renderContent(c) = "report" =>
      LET byType == stats[c].loanTypes
          types == DOMAIN byType
      IN /\ SumOf([t \in types |-> byType[t].total]) = stats[c].totalLoans
         /\ SumOf([t \in types |-> byType[t].active]) = stats[c].activeLoans
         /\ SumOf([t \in types |-> byType[t].settled])
              = stats[c].settledLoans
         /\ SumOf([t \in types |-> byType[t].invested])
              = stats[c].totalInvested
         /\ SumOf([t \in types |-> byType[t].earned]) = stats[c].totalEarned
         /\ \A t \in types :
              byType[t].total = byType[t].active + byType[t].settled
         /\ stats[c].totalLoans = stats[c].activeLoans + stats[c].settledLoans

\* A report with two types, one of them holding an active and a settled
\* record
C12_Witness ==
  /\ renderContent("c1") = "report"
  /\ DOMAIN stats["c1"].loanTypes = {"NR", "R"}
  /\ stats["c1"].loanTypes["NR"].active = 1
  /\ stats["c1"].loanTypes["NR"].settled = 1
  /\ stats["c1"].loanTypes["R"].earned # 0

\* C13: when a settle write takes effect, the Total amount the settled
\* view shows for the record, given_amount + settled_amount, is the total
\* amount the user entered, also when another session renewed the record
\* after the settling session loaded its list.
C13_ShownTotalIsEnteredTotal ==
  [][\A c \in Clients :
       Sent(c, "settle") =>
         LET r == NewResponse(c)
         IN r.rows = 1 =>
              LET new == RowWith(store', r.id)
              IN calculateTotalAmount(new.given_amount, new.settled_amount[1])
                   = r.total]_vars

\* The operations whose handlers change the list only after a success
UnchangedOnError == {"renew", "revoke", "fetch", "import"}

\* C14: when a renew write, a revoke write, a list fetch, a report fetch
\* or an import insert returns an error, the list of entries of the
\* component that issued it is what it was before the operation (neither
\* issuing the request nor handling the error changes it), and handling
\* the error issues no further request.
C14_ErrorLeavesListAndNoRetry ==
  [][\A c \in Clients :
       /\ ( /\ renderContent(c)' = renderContent(c)
            /\ \E k \in UnchangedOnError : Sent(c, k)
            /\ NewResponse(c).error )
          => entries'[c] = entries[c]
       /\ \A r \in Responses(c) :
            (r.kind \in UnchangedOnError /\ r.error /\ Delivered(c, r))
              => /\ entries'[c] = entries[c]
                 /\ Len(inflight'[c]) = Len(inflight[c]) - 1]_vars

\* A session with entries in its list waits for a revoke that failed
C14_Witness ==
  \E c \in Clients :
    /\ entries[c] # {}
    /\ \E r \in Responses(c) :
         r.kind = "revoke" /\ r.error /\ r.id \in {e.id : e \in entries[c]}

Ids(list) == {e.id : e \in list}

\* C15 as stated: the settle and delete paths filter the entry out before
\* success is confirmed, so once a settle or delete write has returned an
\* error the list is without the record.
C15_FilteredBeforeConfirmed ==
  [][\A c \in Clients : \A r \in Responses(c) :
       (r.kind \in {"settle", "delete"} /\ r.error /\ Delivered(c, r))
         => r.id \notin Ids(entries'[c])]_vars

\* C15: on the settle and delete paths the entry is filtered out of the
\* list only when the write has returned without an error; issuing the
\* write leaves the list alone, and a write that returns an error leaves
\* the list as it was, still holding the entry.
C15_FilteredOnlyAfterSuccess ==
  [][\A c \in Clients :
       /\ (Sent(c, "settle") \/ Sent(c, "delete"))
            => entries'[c] = entries[c]
       /\ \A r \in Responses(c) :
            (r.kind \in {"settle", "delete"} /\ Delivered(c, r))
              => IF r.error
                 THEN entries'[c] = entries[c] /\ r.id \in Ids(entries'[c])
                 ELSE entries'[c] = WithoutId(entries[c], r.id)]_vars

\* A session waits for a delete that failed; the entry is in its list and
\* active in the table
C15_Witness ==
  \E c \in Clients : \E r \in Responses(c) :
    /\ r.kind = "delete"
    /\ r.error
    /\ r.id \in Ids(entries[c])
    /\ StatusOf(store, r.id) = "active"

\* The requests session c has issued in this step whose responses are the
\* last it waits for
Issued(c) ==
  IF /\ inflight'[c] # inflight[c]
     /\ Len(inflight'[c]) >= Len(inflight[c])
     /\ Len(inflight'[c]) > 0
  THEN {inflight'[c][Len(inflight'[c])]}
  ELSE {}

\* The range of a report fetch, as the 'dd-MM-yyyy' pair the selector shows
RangeOf(r) ==
  [start |-> FormatDMY(r.start[1]), end |-> FormatDMY(r.end[1])]

\* C16: every fetch the Report issues while its selector is in monthly
\* mode (not custom, reportType 'monthly'), the fetch of its mount
\* included, ranges from the first to the last day of the current month;
\* every fetch it issues in yearly mode ranges from 1 January to 31
\* December of the current year.
C16_ModeDeterminesRange ==
  [][\A c \in Clients : \A r \in Issued(c) :
       (renderContent(c)' = "report" /\ r.kind = "fetch"
          /\ ~isCustomDate'[c])
         => RangeOf(r) = IF reportType'[c] = "monthly"
                         THEN MonthRange(Today) ELSE YearRange(Today)]_vars

\* C17: no report fetch is issued with a range whose start date is after
\* its end date, whatever modes were selected, custom dates edited, Apply
\* clicked and files imported (an issued request is awaited from the step
\* that issues it).
C17_NoInvertedRange ==
  \A c \in Clients : \A r \in Responses(c) :
    (r.kind = "fetch" /\ r.start # NULL) => DateLeq(r.start[1], r.end[1])

\* The debounced calls of the mounted form that are pending
Pending(ts) == SelectSeq(ts, LAMBDA t : t.live)

\* C18: a burst of name changes, each less than the debounce window after
\* the one before, issues one search request, after the window has elapsed
\* since the last change and with the last value typed: so when the form
\* issues a search request, no call made by another change of the burst is
\* still pending.
C18_BurstIssuesOneSearch ==
  [][\A c \in Clients :
       (Sent(c, "search") /\ NewResponse(c).live)
         => Pending(timers'[c]) = <<>>]_vars

\* C19: once the entry form is torn down, no search request that was
\* pending in its debounce window is issued, however many name changes
\* came before: every search request is issued for a mounted form.
C19_NoSearchAfterTeardown ==
  [][\A c \in Clients : Sent(c, "search") => NewResponse(c).live]_vars

\* No view component of session c is mounted: the view state is what it is
\* before a mount and no fetch of a view is awaited
NoViewMounted(c) ==
  /\ entries[c] = {}
  /\ loading[c]
  /\ stats[c] = EmptyStats
  /\ shownRange[c] = NULL
  /\ \A r \in Responses(c) : r.kind = "signout"

\* C20: in every reachable state of the shell, one of the four views is
\* rendered only if the startup session check has finished (isLoading is
\* false) and user is non-null, and no view is mounted otherwise; when
\* user is null after loading, the sign-in form is what is rendered.
C20_ViewsBehindSessionGuard ==
  \A c \in Clients :
    /\ renderContent(c) \in Tabs => (~isLoading[c] /\ user[c] # NULL)
    /\ (isLoading[c] \/ user[c] = NULL) => NoViewMounted(c)
    /\ (~isLoading[c] /\ user[c] = NULL) => renderContent(c) = "auth"

\* One session knows its user and has had a tab clicked while its startup
\* check is still under way; another was signed out while it showed the
\* entries it had loaded
C20_Witness ==
  \E c, d \in Clients :
    /\ isLoading[c]
    /\ user[c] # NULL
    /\ activeTab[c] = "taken"
    /\ ~isLoading[d]
    /\ user[d] = NULL
    /\ activeTab[d] = "settled"

\* C21: in every reachable state each stored entry has renewal_date and
\* renewal_amount both null or both non-null, and they are non-null
\* exactly when its renewal_history is non-empty.
C21_RenewalFieldsIffRenewed ==
  \A r \in store :
    /\ (r.renewal_date = NULL) <=> (r.renewal_amount = NULL)
    /\ (r.renewal_date # NULL) <=> (HistoryOf(r) # <<>>)

\* The row of the table with the id of r after this step
Successors(r) == {q \in store' : q.id = r.id}

SameLoan(r, q) ==
  /\ q.date = r.date
  /\ q.given_amount = r.given_amount

SameRenewal(r, q) ==
  /\ q.renewal_history = r.renewal_history
  /\ q.renewal_date = r.renewal_date
  /\ q.renewal_amount = r.renewal_amount

SameSettlement(r, q) ==
  /\ q.status = r.status
  /\ q.settled_amount = r.settled_amount
  /\ q.settled_date = r.settled_date
  /\ q.settlement_notes = r.settlement_notes

\* C22: across every step the id and type of a stored entry never change;
\* its date and given_amount change only in a renewal step of that entry;
\* a settle or revoke step leaves date, given_amount, renewal_history,
\* renewal_date and renewal_amount unchanged; a renew step leaves status
\* and the three settlement fields unchanged.
C22_Frame ==
  [][ /\ Cardinality(store') = Cardinality(store) => Ids(store') = Ids(store)
      /\ \A r \in store : \A q \in Successors(r) :
            /\ q.type = r.type
            /\ ~SameLoan(r, q) =>
                 \E c \in Clients : Sent(c, "renew") /\ NewResponse(c).id = r.id
            /\ (\E c \in Clients : Sent(c, "settle") \/ Sent(c, "revoke")) =>
                 SameLoan(r, q) /\ SameRenewal(r, q)
            /\ (\E c \in Clients : Sent(c, "renew")) => SameSettlement(r, q)
    ]_vars

\* A renewed entry has been settled and the settlement revoked
C22_Witness ==
  \E c \in Clients : \E r \in Responses(c) :
    /\ r.kind = "revoke"
    /\ r.rows = 1
    /\ HistoryOf(RowWith(store, r.id)) # <<>>
    /\ RowWith(store, r.id).status = "active"

\* C23: in every reachable state every stored entry has given_amount >= 0,
\* whether the row came from the entry form, had its principal replaced by
\* a renewal, or was inserted by an import that passed validation.
C23_PrincipalNonNegative ==
  \A r \in store : r.given_amount >= 0

\* A renewed entry is stored, and an import of a validated element with a
\* negative given_amount has been answered by the table
C23_Witness ==
  /\ \E r \in store : HistoryOf(r) # <<>>
  /\ \E c \in Clients :
       /\ importing[c] # NULL
       /\ importing[c][1].file.data = <<NegativeItem>>
       /\ \E r \in Responses(c) : r.kind = "import" /\ r.error

\* C24: a delete the user has confirmed, sent by an authenticated session
\* and answered by the table, for a record whose stored status is 'active',
\* removes that record from the store; a step that issues no delete
\* request leaves every stored id in place.
C24_ConfirmedDeleteRemoves ==
  [][ /\ \A c \in Clients :
           /\ Sent(c, "delete")
           /\ user[c] # NULL
           /\ ~NewResponse(c).error
           /\ NewResponse(c).found = "active"
           => NewResponse(c).id \notin Ids(store')
      /\ (\A c \in Clients : ~Sent(c, "delete")) => Ids(store) \subseteq Ids(store')
    ]_vars

\* The name field of session c has a suggestion selected in this step
SuggestionSelected(c) ==
  /\ renderContent(c) = "entry"
  /\ renderContent(c)' = "entry"
  /\ showSuggestions[c]
  /\ ~showSuggestions'[c]

\* C25: after every completed search the suggestion list holds at most 5
\* items with pairwise distinct customer_name; selecting a suggestion
\* copies its name, address and mobile (the empty string when the mobile is
\* null) into the draft, hides the list and issues no insert.
C25_SuggestionsDistinctAndCopied ==
  /\ [](\A c \in Clients :
         /\ Cardinality(suggestions[c]) <= 5
         /\ \A s, t \in suggestions[c] :
              s.customer_name = t.customer_name => s = t)
  /\ [][\A c \in Clients :
         SuggestionSelected(c) =>
           /\ \E s \in suggestions[c] :
                formData'[c] =
                  [formData[c] EXCEPT
                     !.customerName = s.customer_name,
                     !.customerAddress = s.customer_address,
                     !.customerMobile = IF s.customer_mobile = NULL THEN ""
                                        ELSE s.customer_mobile[1]]
           /\ inflight'[c] = inflight[c]
           /\ store' = store
           /\ nextId' = nextId]_vars

\* A search that matched six customers left five suggestions, and the one
\* with a mobile number has been selected
C25_Witness ==
  \E c \in Clients :
    /\ Cardinality(suggestions[c]) = 5
    /\ ~showSuggestions[c]
    /\ formData[c].customerName = "amy"
    /\ formData[c].customerAddress = "pune"
    /\ formData[c].customerMobile = "98"

\* The rows the table holds for the date filter of the view session c shows
Filtered(c) ==
  IF renderContent(c) = "taken" THEN SelectActive(store, selectedDate[c])
  ELSE SelectSettled(store, selectedDate[c])

\* C26: in the active and the settled view, when the date filter is changed
\* while earlier list fetches are awaited, then once every fetch has been
\* answered the displayed list is the result for the date filter selected
\* last, in whatever order the answers arrive.
C26_LastFilterWins ==
  \A c \in Clients :
    (renderContent(c) \in {"taken", "settled"} /\ inflight[c] = <<>>)
      => entries[c] = Filtered(c)

\* C27: in the Report, whenever the answer of a fetch puts records and
\* statistics on display, the records were fetched with exactly the start
\* and end shown as "Selected Range", and the statistics are the
\* aggregation of exactly the records displayed; after any sequence of
\* mode selections, custom edits without Apply, Apply clicks and
\* successful imports.
C27_DisplayedMatchesSelectedRange ==
  [][\A c \in Clients : \A r \in Responses(c) :
       (Delivered(c, r) /\ r.kind = "fetch" /\ ~r.error
          /\ renderContent(c) = "report")
         => /\ RangeOf(r) = dateRange'[c]
            /\ entries'[c] = r.data
            /\ stats'[c] = calculateStats(entries'[c])]_vars

\* C28: a JSON export followed by an import round-trips: for every record
\* set the Report has fetched, the exported document passes the import
\* validation and its insert is accepted by the store.
C28_ExportImportRoundTrips ==
  \A c \in Clients :
    (renderContent(c) = "report" /\ entries[c] # {}) =>
      LET data == exportToJSON(entries[c])
      IN /\ validateImportData(data)
         /\ ~InsertJson(store, data, nextId).error

\* A member of an imported element that holds a value
Present(member) == member # Undefined /\ member # JsNull

\* C29: every element the import validation accepts satisfies the data
\* model: settled_amount and settled_date are both present exactly when
\* status is 'settled', and given_amount is at least 0; so a batch that
\* reaches the insert is never one the store's constraints reject.
C29_AcceptedElementsFitModel ==
  \A c \in Clients :
    (importing[c] # NULL /\ ReachesInsert(importing[c][1].file)) =>
      LET data == importing[c][1].file.data
      IN /\ \A i \in 1..Len(data) :
              /\ (Present(data[i].f.settled_amount)
                    /\ Present(data[i].f.settled_date))
                  <=> data[i].f.status = Str("settled")
              /\ data[i].f.given_amount.v >= 0
         /\ \A i \in 1..Len(data) : RowAccepted(RowOf(data[i], nextId))

\* C30: for every interleaving of the completion of the startup session
\* check with session-change notifications, when the check completes after
\* a notification the user state stays the user of the most recent
\* notification (a sign-out notified before the check resolves is not
\* overwritten by the older session), and every notification sets the user
\* state to its session.
C30_LatestSessionWins ==
  [][\A c \in Clients :
       /\ (checking[c] /\ ~checking'[c] /\ notified[c] # NULL)
            => user'[c] = notified[c][1]
       /\ notified'[c] # notified[c] => user'[c] = notified'[c][1]]_vars

\* C30, its last part: isLoading becomes false, and stays false, whether
\* the startup check succeeds or fails.
C30_LoadingEnds ==
  \A c \in Clients : <>[](~isLoading[c])

====
